---- MODULE Spec2Model ----
(***************************************************************************)
(* A model of the QNTX web scraper plugin (qntx-webscraper): the URL guard *)
(* (SSRF policy), the robots.txt cache, the per-domain rate limiter, the   *)
(* size-capped fetcher and the workflows built on them (scrape,            *)
(* scrape_feed, scrape_sitemap, scrape_sitemap_and_attest, crawl).         *)
(*                                                                         *)
(* Spec      one engine (WebScraper) running one workflow call; the call    *)
(*           logs its guard decisions and its network I/O in `trace`, in   *)
(*           program order.                                                *)
(* SpecSeq   the rate limiter with a clock, one workflow thread.           *)
(* SpecPool  the rate limiter with a clock, two workflow threads of the    *)
(*           gRPC worker pool sharing it.                                  *)
(* SpecFetch _fetch_with_size_limit reading one response chunk by chunk.   *)
(* SpecAttest the workflows that project what they harvested into          *)
(*           attestation commands for the sink (scrape_and_attest,         *)
(*           scrape_feed_and_attest, crawl_and_attest), up to two calls.   *)
(* SpecPlugin the gRPC plugin: Initialize, Shutdown, HandleHTTP routing and *)
(*           Health, each call in one step.                                *)
(* SpecSitemap the <url> entries of one sitemap document turned into       *)
(*           records, priority text parsed as float() parses it.          *)
(* SpecRobots RobotsChecker.can_fetch step by step on two threads;         *)
(* SpecRobotsSeq the same on one thread.                                   *)
(* SpecRace  the harvesting handlers of HandleHTTP step by step on the     *)
(*           pool's threads, with Initialize and Shutdown in between.      *)
(* SpecSitemapWalk scrape_sitemap_and_attest alone, its loop scheduled     *)
(*           fairly.                                                       *)
(* SpecAtom  _parse_atom on one parsed Atom feed.                          *)
(* SpecRecrawl /crawl requests one after the other against a sink that     *)
(*           keeps what it accepted and may fail.                          *)
(***************************************************************************)
EXTENDS Integers, Sequences, FiniteSets, TLC

VARIABLES
    \* ---- WebScraper fields (scraper.py 256-269)
    allow_private_ips,  \* self.allow_private_ips
    respect_robots,     \* self.respect_robots (robots_checker is None iff FALSE)
    rate_limiter,       \* TRUE iff self.rate_limiter is not None (rate_limit > 0)
    parsers,            \* RobotsChecker.parsers: a dict, origin -> policy
    \* ---- the workflow call in progress / last returned
    pc,                 \* "idle" | "crawl" | "attest" | "sitemaps" | "returned" | "raised"
    call,               \* the call: [kind, url, ...arguments]
    trace,              \* guard decisions and network I/O of the call, in order
    result,             \* the record(s) the call returned / yielded so far
    visited,            \* crawl: visited ; scrape_sitemap_and_attest: processed
    to_visit,           \* crawl: to_visit ; scrape_sitemap_and_attest: to_process
    \* ---- rate limiter with time (SpecSeq, SpecPool)
    now,                \* the clock, in ticks (time.time())
    min_interval,       \* RateLimiter.min_interval in ticks; -1: no limiter
    crawl_delay,        \* Crawl-delay of the host's cached robots.txt; 0: none
    last_request,       \* RateLimiter.last_request: domain -> tick, -1 if no entry
    wpc,                \* per thread: position inside RateLimiter.wait / the fetch
    wdomain,            \* per thread: domain of the URL being fetched
    wlocal,             \* per thread: locals of wait() (sleep deadline, stamp)
    fetches,            \* history: the fetches started, [thread, domain, gate, start]
    \* ---- _fetch_with_size_limit (SpecFetch)
    max_response_size,  \* self.max_response_size
    response,           \* the HTTP response being read: [status, content_length, body, ctype_ok]
    fpc,                \* "send" | "headers" | "body" | "returned" | "raised"
    content,            \* len(content) accumulated so far
    delivered,          \* length of the bytes returned to the parser, -1 if none
    \* ---- the sink (ats_client) as the -and-attest workflows use it
    sink,               \* AttestationCommands passed to generate_and_create, in order
    actor,              \* the actor argument of the call
    runs,               \* history: what earlier calls projected, [page, actor, ...]
    \* ---- WebScraperPlugin (plugin.py)
    plugin,             \* which of self.scraper, ats_client, pulse_client are set
    http,               \* the last exchange if it was a HandleHTTP: request, status
    health,             \* the last exchange if it was a Health: the answer
    \* ---- the sitemap parser (SpecSitemap)
    document,           \* the <url> elements of the document given to the parser
    parsed_urls,        \* SitemapResult.urls of the last parse
    \* ---- RobotsChecker.can_fetch step by step (SpecRobots, SpecRobotsSeq)
    rpc,                \* per thread: position inside can_fetch
    rlocal,             \* per thread: its url, the parser it built, what it returned
    robots_gets,        \* history: the GETs of /robots.txt, [origin, response]
    \* ---- HandleHTTP step by step on the threads of the pool (SpecRace)
    hpc,                \* per thread: position inside the handler
    hlocal,             \* per thread: the request and the response it got
    \* ---- the Atom parser (SpecAtom)
    feed_root,          \* the parsed root element given to _parse_atom
    feed_result,        \* the FeedResult it returned
    \* ---- the sink's contents over several /crawl runs (SpecRecrawl)
    store               \* the attestations the sink holds: [subject, predicate, context]

wfvars == <<allow_private_ips, respect_robots, rate_limiter, parsers, pc, call,
            trace, result, visited, to_visit>>
ratevars == <<now, min_interval, crawl_delay, last_request, wpc, wdomain, wlocal, fetches>>
fetchvars == <<max_response_size, response, fpc, content, delivered>>
attvars == <<sink, actor, runs>>
plugvars == <<plugin, http, health>>
parsevars == <<document, parsed_urls>>
robotvars == <<rpc, rlocal, robots_gets>>
racevars == <<hpc, hlocal>>
atomvars == <<feed_root, feed_result>>
storevars == <<store>>
extvars == <<parsevars, robotvars, racevars, atomvars, storevars>>
vars == <<wfvars, ratevars, fetchvars, attvars, plugvars, extvars>>

-----------------------------------------------------------------------------
(* Bounds of the model *)

MaxPages == 3       \* crawl: max_pages ranges over 0..MaxPages
MaxNested == 3      \* scrape_sitemap_and_attest: max_nested ranges over 0..MaxNested
PoolSize == 2       \* threads of the worker pool that SpecPool follows
MaxFetches == 2     \* fetches of the single workflow thread in SpecSeq
PoolFetches == 1    \* fetches per thread in SpecPool
MaxTime == 4        \* the clock stops at MaxTime ticks
MaxInterval == 2    \* min_interval ranges over 1..MaxInterval ticks
MaxCrawlDelay == 3  \* Crawl-delay ranges over 0..MaxCrawlDelay ticks (0: none)
MaxChunks == 3      \* SpecFetch: bodies of up to MaxChunks full chunks
MaxImages == 12     \* SpecAttest: pages of up to MaxImages images
MaxAttestPages == 2 \* SpecAttest: crawl_and_attest has max_pages in 0..MaxAttestPages

-----------------------------------------------------------------------------
(* URLs.  A URL is [scheme, host, path]; host is urlparse(url).hostname     *)
(* (lower-cased by urlparse, "" when the URL has none).                    *)

Url(s, h, p) == [scheme |-> s, host |-> h, path |-> p]

\* Hosts that ipaddress.ip_address() parses.
IPv4Literals == {"127.0.0.1", "0.0.0.0", "169.254.169.254", "10.0.0.1", "240.0.0.1", "8.8.8.8"}
IPv6Literals == {"::1", "fc00::1", "fe80::1", "4000::1"}
IPLiterals == IPv4Literals \cup IPv6Literals
HostNames == {"localhost", "metadata.google.internal", "metadata.goog",
              "example.com", "other.org", "intranet.corp", "nxdomain.test", "a..b"}
Hosts == IPLiterals \cup HostNames \cup {""}

\* ipaddress properties of the literals (CPython ipaddress, IANA registries).
is_private(ip) == ip \in {"127.0.0.1", "0.0.0.0", "169.254.169.254", "10.0.0.1",
                          "240.0.0.1", "::1", "fc00::1", "fe80::1"}
is_loopback(ip) == ip \in {"127.0.0.1", "::1"}
is_link_local(ip) == ip \in {"169.254.169.254", "fe80::1"}
is_reserved(ip) == ip \in {"240.0.0.1", "::1", "4000::1"}

\* socket.gethostbyname: IPv4 only.  An IPv4 literal resolves to itself, an
\* IPv6 literal raises socket.gaierror, a name resolves by DNS.  A name with
\* an empty label cannot be encoded for the resolver: UnicodeError.
gethostbyname(h) ==
    CASE h \in IPv4Literals -> h
      [] h \in IPv6Literals -> "gaierror"
      [] h \in {"localhost"} -> "127.0.0.1"
      [] h \in {"metadata.google.internal", "metadata.goog"} -> "169.254.169.254"
      [] h \in {"example.com", "other.org"} -> "8.8.8.8"
      [] h = "intranet.corp" -> "10.0.0.1"
      [] h = "a..b" -> "UnicodeError"
      [] OTHER -> "gaierror"

BLOCKED_METADATA_HOSTS == {"169.254.169.254", "metadata.google.internal", "metadata.goog"}
LOCALHOST_NAMES == {"localhost", "127.0.0.1", "::1", "0.0.0.0"}

\* The except ValueError branch of _validate_url: resolve and re-check.  It
\* tests is_private, is_loopback and is_link_local, not is_reserved, and it
\* catches socket.gaierror alone: a UnicodeError of the resolver leaves
\* _validate_url as it is.
resolve_and_check(hostname, allow_private) ==
    IF allow_private THEN "ok"
    ELSE LET resolved == gethostbyname(hostname) IN
         IF resolved = "gaierror" THEN "ok"
         ELSE IF resolved = "UnicodeError" THEN "UnicodeError"
         ELSE IF is_private(resolved) \/ is_loopback(resolved) \/ is_link_local(resolved)
              THEN "resolves_to_blocked_ip"
              ELSE "ok"

\* The try block of _validate_url.  SSRFError is a subclass of ValueError, so
\* an SSRFError raised inside the try block is caught by `except ValueError`
\* exactly as the ValueError of a host that is no IP literal, and the handler
\* decides.
ip_literal_check(hostname, allow_private) ==
    IF hostname \in IPLiterals
    THEN IF ~allow_private /\ (is_private(hostname) \/ is_loopback(hostname)
                               \/ is_link_local(hostname) \/ is_reserved(hostname))
         THEN resolve_and_check(hostname, allow_private)
         ELSE "ok"
    ELSE resolve_and_check(hostname, allow_private)

\* Mutant: the metadata blocklist applied only when private IPs are refused.
validate_url_metadata_optional(url, allow_private) ==
    IF url.scheme \notin {"http", "https"} THEN "unsupported_scheme"
    ELSE IF url.host = "" THEN "no_hostname"
    ELSE IF ~allow_private /\ url.host \in LOCALHOST_NAMES THEN "localhost"
    ELSE IF ~allow_private /\ url.host \in BLOCKED_METADATA_HOSTS THEN "cloud_metadata"
    ELSE ip_literal_check(url.host, allow_private)

\* _validate_url: "ok" when it returns, else the reason of the SSRFError, or
\* "UnicodeError" when that exception leaves it.
validate_url(url, allow_private) ==
    IF url.scheme \notin {"http", "https"} THEN "unsupported_scheme"
    ELSE IF url.host = "" THEN "no_hostname"
    ELSE IF ~allow_private /\ url.host \in LOCALHOST_NAMES THEN "localhost"
    ELSE IF url.host \in BLOCKED_METADATA_HOSTS THEN "cloud_metadata"
    ELSE ip_literal_check(url.host, allow_private)

-----------------------------------------------------------------------------
(* Robots cache (RobotsChecker) and the workflow pipeline *)

HttpUrl(h, p) == Url("http", h, p)
GuardUrls == {HttpUrl(h, "/") : h \in Hosts}
                \cup {Url("ftp", "example.com", "/"), Url("file", "", "/etc/passwd")}
SiteUrls == {HttpUrl("example.com", "/"), HttpUrl("example.com", "/a"),
             HttpUrl("other.org", "/z")}
SitemapUrls == {HttpUrl("example.com", "/s1.xml"), HttpUrl("example.com", "/s2.xml"),
                HttpUrl("169.254.169.254", "/")}
Urls == GuardUrls \cup SiteUrls \cup SitemapUrls

\* f"{parsed.scheme}://{parsed.netloc}/robots.txt" is the cache key: the origin.
Origin(url) == [scheme |-> url.scheme, host |-> url.host]

\* What the GET of /robots.txt can produce, as the parser the cache keeps:
\* 200 with no rule for us, 200 with "Disallow: /", or non-200 / transport
\* error (parser fed the empty list).
Policies == {"allow_all", "disallow_all", "unavailable"}

\* RobotFileParser.can_fetch of the cached parser
can_fetch(policy, url) == policy # "disallow_all"

Event(op, url) == [op |-> op, url |-> url]

\* RobotsChecker.can_fetch through WebScraper._check_robots.  robots_txt is
\* what the GET of /robots.txt yields if it is issued now.
check_robots(url, cache, robots_txt) ==
    IF ~respect_robots
    THEN [events |-> <<>>, parsers |-> cache, allowed |-> TRUE]
    ELSE LET o == Origin(url)
             miss == o \notin DOMAIN cache
             cache2 == IF miss THEN cache @@ (o :> robots_txt) ELSE cache
             ok == can_fetch(cache2[o], url)
         IN [events |-> (IF miss THEN <<Event("robots_get", url)>> ELSE <<>>)
                         \o <<Event(IF ok THEN "robots_allow" ELSE "robots_deny", url)>>,
             parsers |-> cache2,
             allowed |-> ok]

\* WebScraper._rate_limit: RateLimiter.wait writes last_request[domain]
rate_limit(url) == IF rate_limiter THEN <<Event("rate", url)>> ELSE <<>>

\* _fetch_with_size_limit as the workflows see it: one GET, then bytes or an
\* exception (requests.RequestException, ValueError).
fetch(url) == <<Event("get", url)>>

\* The workflows catch SSRFError alone around _validate_url: any other
\* exception leaves the workflow, which then returns no record.
guard_event(v, url) == <<Event(IF v = "UnicodeError" THEN "raise" ELSE "refuse", url)>>
ends(error) == IF error = "UnicodeError" THEN "raised" ELSE "returned"
returned_records(r) == IF r.error = "UnicodeError" THEN <<>> ELSE <<r>>

PageRecord(url, status_code, error, links) ==
    [url |-> url, status_code |-> status_code, error |-> error, links |-> links]

\* ExtractedLink of one anchor: is_external compares netloc with the page's.
ExtractedLink(source, target) ==
    [target_url |-> target, is_external |-> target.host # source.host]

RECURSIVE extract_links(_, _)
extract_links(source, hrefs) ==
    IF hrefs = <<>> THEN <<>>
    ELSE LET rest == extract_links(source, Tail(hrefs)) IN
         IF Head(hrefs).scheme \in {"http", "https"}
         THEN <<ExtractedLink(source, Head(hrefs))>> \o rest
         ELSE rest

\* WebScraper.scrape
scrape(url, cache, robots_txt, resp) ==
    LET v == validate_url(url, allow_private_ips) IN
    IF v # "ok"
    THEN [events |-> guard_event(v, url), parsers |-> cache,
          result |-> PageRecord(url, 0, v, <<>>)]
    ELSE LET r == check_robots(url, cache, robots_txt) IN
         IF ~r.allowed
         THEN [events |-> <<Event("admit", url)>> \o r.events, parsers |-> r.parsers,
               result |-> PageRecord(url, 0, "blocked_by_robots", <<>>)]
         ELSE LET ev == <<Event("admit", url)>> \o r.events \o rate_limit(url) \o fetch(url) IN
              IF resp.status # "ok"
              THEN [events |-> ev, parsers |-> r.parsers,
                    result |-> PageRecord(url, 0, "fetch_failed", <<>>)]
              ELSE [events |-> ev, parsers |-> r.parsers,
                    result |-> PageRecord(url, 200, "none", extract_links(url, resp.links))]

FeedResult(url, feed_type, error) == [url |-> url, feed_type |-> feed_type, error |-> error]

\* WebScraper.scrape_feed
scrape_feed(url, resp) ==
    LET v == validate_url(url, allow_private_ips) IN
    IF v # "ok"
    THEN [events |-> guard_event(v, url), result |-> FeedResult(url, "unknown", v)]
    ELSE LET ev == <<Event("admit", url)>> \o rate_limit(url) \o fetch(url) IN
         IF resp.status # "ok"
         THEN [events |-> ev, result |-> FeedResult(url, "unknown", "fetch_failed")]
         ELSE [events |-> ev, result |-> FeedResult(url, resp.feed_type, resp.error)]

SitemapResult(url, urls, sitemaps, error) ==
    [url |-> url, urls |-> urls, sitemaps |-> sitemaps, error |-> error]

\* the error of a sitemap that was not parsed: the fetch raised, or
\* etree.fromstring raised XMLSyntaxError
sitemap_error(resp) == IF resp.status = "invalid_xml" THEN "invalid_xml" ELSE "fetch_failed"

\* Mutant: the rate limiter is passed before the URL is validated.
scrape_sitemap_rate_first(url, resp) ==
    LET v == validate_url(url, allow_private_ips) IN
    IF v # "ok"
    THEN [events |-> rate_limit(url) \o <<Event("refuse", url)>>,
          result |-> SitemapResult(url, <<>>, <<>>, v)]
    ELSE LET ev == rate_limit(url) \o <<Event("admit", url)>> \o fetch(url) IN
         IF resp.status # "ok"
         THEN [events |-> ev, result |-> SitemapResult(url, <<>>, <<>>, sitemap_error(resp))]
         ELSE [events |-> ev, result |-> SitemapResult(url, resp.urls, resp.sitemaps, "none")]

\* WebScraper.scrape_sitemap
scrape_sitemap(url, resp) ==
    LET v == validate_url(url, allow_private_ips) IN
    IF v # "ok"
    THEN [events |-> guard_event(v, url), result |-> SitemapResult(url, <<>>, <<>>, v)]
    ELSE LET ev == <<Event("admit", url)>> \o rate_limit(url) \o fetch(url) IN
         IF resp.status # "ok"
         THEN [events |-> ev, result |-> SitemapResult(url, <<>>, <<>>, sitemap_error(resp))]
         ELSE [events |-> ev, result |-> SitemapResult(url, resp.urls, resp.sitemaps, "none")]

(* What the network can answer *)

SeqsUpTo2(S) == {<<>>} \cup {<<a>> : a \in S} \cup {<<a, b>> : a \in S, b \in S}

PageResponses == {[status |-> "error", links |-> <<>>]}
                    \cup {[status |-> "ok", links |-> l] : l \in SeqsUpTo2(SiteUrls)}
FeedResponses == {[status |-> "error", feed_type |-> "unknown", error |-> "none"],
                  [status |-> "ok", feed_type |-> "rss", error |-> "none"],
                  [status |-> "ok", feed_type |-> "atom", error |-> "none"],
                  [status |-> "ok", feed_type |-> "unknown", error |-> "invalid_xml"],
                  [status |-> "ok", feed_type |-> "unknown", error |-> "unknown_feed_format"]}
SitemapResponses == {[status |-> "error", urls |-> <<>>, sitemaps |-> <<>>],
                     [status |-> "invalid_xml", urls |-> <<>>, sitemaps |-> <<>>]}
                       \cup {[status |-> "ok", urls |-> u, sitemaps |-> s] :
                               u \in {<<>>,
                                      <<[loc |-> HttpUrl("example.com", "/a"), lastmod |-> "",
                                         changefreq |-> "", priority |-> "0.5"]>>,
                                      <<[loc |-> HttpUrl("example.com", "/a"),
                                         lastmod |-> "2024-01-01", changefreq |-> "daily",
                                         priority |-> "0.8"]>>},
                               s \in SeqsUpTo2(SitemapUrls)}
-----------------------------------------------------------------------------
(* Projection: what the -and-attest workflows send to the sink *)

Actors == {"", "alice"}

\* Mutant: the actor is attached to no command.
actors_of_nobody(a) == <<>>

\* `[actor] if actor else []`
actors_of(a) == IF a # "" THEN <<a>> ELSE <<>>

AttestationCommand(subject, predicate, context, a, attributes) ==
    [subjects |-> <<subject>>, predicates |-> <<predicate>>, contexts |-> <<context>>,
     actors |-> actors_of(a), attributes |-> attributes]

\* attributes = {"source": "qntx-webscraper"}, and `if v: attributes[k] = v`
SourceAttr == "source" :> "qntx-webscraper"
OptAttr(k, v) == IF v # "" THEN k :> v ELSE <<>>

\* result.images[:10]
IMAGE_LIMIT == 10
Take(q, n) == IF Len(q) <= n THEN q ELSE SubSeq(q, 1, n)

first_images(images) == Take(images, IMAGE_LIMIT)

\* one command if the field is non-empty
field_command(url, predicate, value, a) ==
    IF value # "" THEN <<AttestationCommand(url, predicate, value, a, SourceAttr)>> ELSE <<>>

RECURSIVE image_commands(_, _, _)
image_commands(url, images, a) ==
    IF images = <<>> THEN <<>>
    ELSE LET img == Head(images) IN
         (IF img.alt # ""
          THEN <<AttestationCommand(url, "has_image", img.src, a,
                    SourceAttr @@ ("alt" :> img.alt) @@ ("title" :> img.title))>>
          ELSE <<>>) \o image_commands(url, Tail(images), a)

RECURSIVE structured_data_commands(_, _, _)
structured_data_commands(url, sds, a) ==
    IF sds = <<>> THEN <<>>
    ELSE <<AttestationCommand(url, "has_structured_data", Head(sds).type, a,
                SourceAttr @@ ("data" :> Head(sds).data))>>
         \o structured_data_commands(url, Tail(sds), a)

\* The anchors of the model carry neither text nor rel: the attributes of a
\* link command are the source sentinel alone.
RECURSIVE link_commands(_, _, _, _)
link_commands(url, links, a, include_external) ==
    IF links = <<>> THEN <<>>
    ELSE LET link == Head(links) IN
         (IF ~include_external /\ link.is_external THEN <<>>
          ELSE <<AttestationCommand(url,
                    IF link.is_external THEN "links_externally_to" ELSE "links_to",
                    link.target_url, a, SourceAttr)>>)
         \o link_commands(url, Tail(links), a, include_external)

\* What scrape keeps of a fetched page besides its links: title, and with
\* extract_all the meta fields, images and structured data.
NoUrl == Url("", "", "")
NoContent == [title |-> "", description |-> "", author |-> "", published_date |-> "",
              canonical_url |-> NoUrl, images |-> <<>>, structured_data |-> <<>>]
page_content(resp, extract_all) ==
    IF extract_all
    THEN [title |-> resp.title, description |-> resp.description, author |-> resp.author,
          published_date |-> resp.published_date, canonical_url |-> resp.canonical_url,
          images |-> resp.images, structured_data |-> resp.structured_data]
    ELSE [NoContent EXCEPT !.title = resp.title]

\* The body of scrape_and_attest after the scrape: the commands, in the
\* order generate_and_create receives them.
project_page(url, page, links, a, include_external) ==
    field_command(url, "has_title", page.title, a)
    \o field_command(url, "has_meta_description", page.description, a)
    \o field_command(url, "authored_by", page.author, a)
    \o field_command(url, "published_at", page.published_date, a)
    \o (IF page.canonical_url # NoUrl /\ page.canonical_url # url
        THEN <<AttestationCommand(url, "has_canonical_url", page.canonical_url, a, SourceAttr)>>
        ELSE <<>>)
    \o image_commands(url, first_images(page.images), a)
    \o structured_data_commands(url, page.structured_data, a)
    \o link_commands(url, links, a, include_external)

\* Mutant: on an engine that has a robots policy cached, the link commands
\* are left out.
scrape_and_attest_by_cache(url, a, include_external, extract_all, cache, robots_txt, resp) ==
    LET s == scrape(url, cache, robots_txt, resp) IN
    IF s.result.error # "none"
    THEN [events |-> s.events, parsers |-> s.parsers, result |-> s.result,
          page |-> NoContent, commands |-> <<>>]
    ELSE LET page == page_content(resp, extract_all) IN
         [events |-> s.events, parsers |-> s.parsers, result |-> s.result,
          page |-> page,
          commands |-> project_page(url, page,
                                    IF DOMAIN cache = {} THEN s.result.links ELSE <<>>,
                                    a, include_external)]

\* WebScraper.scrape_and_attest
scrape_and_attest(url, a, include_external, extract_all, cache, robots_txt, resp) ==
    LET s == scrape(url, cache, robots_txt, resp) IN
    IF s.result.error # "none"
    THEN [events |-> s.events, parsers |-> s.parsers, result |-> s.result,
          page |-> NoContent, commands |-> <<>>]
    ELSE LET page == page_content(resp, extract_all) IN
         [events |-> s.events, parsers |-> s.parsers, result |-> s.result,
          page |-> page,
          commands |-> project_page(url, page, s.result.links, a, include_external)]

\* FeedResult.title and FeedResult.items of a parsed feed
feed_content(resp) == [title |-> resp.title, items |-> resp.items]

\* Mutant: an item without link is sent as well.
feed_item_commands_all(url, items, a) ==
    [i \in 1..Len(items) |->
        AttestationCommand(url, "feed_contains", items[i].link, a,
            SourceAttr @@ OptAttr("title", items[i].title)
                       @@ OptAttr("published", items[i].published)
                       @@ OptAttr("author", items[i].author))]

RECURSIVE feed_item_commands(_, _, _)
feed_item_commands(url, items, a) ==
    IF items = <<>> THEN <<>>
    ELSE LET item == Head(items) IN
         (IF item.link = "" THEN <<>>
          ELSE <<AttestationCommand(url, "feed_contains", item.link, a,
                    SourceAttr @@ OptAttr("title", item.title)
                               @@ OptAttr("published", item.published)
                               @@ OptAttr("author", item.author))>>)
         \o feed_item_commands(url, Tail(items), a)

\* The body of scrape_feed_and_attest after the scrape
project_feed(url, feed_type, feed, a) ==
    (IF feed.title # ""
     THEN <<AttestationCommand(url, "has_title", feed.title, a,
               SourceAttr @@ ("feed_type" :> feed_type))>>
     ELSE <<>>)
    \o feed_item_commands(url, feed.items, a)

\* Mutant: the feed is projected whether or not the record has an error.
scrape_feed_and_attest_despite_error(url, a, resp) ==
    LET s == scrape_feed(url, resp) IN
    [events |-> s.events, result |-> s.result, feed |-> feed_content(resp),
     commands |-> project_feed(url, s.result.feed_type, feed_content(resp), a)]

\* WebScraper.scrape_feed_and_attest
scrape_feed_and_attest(url, a, resp) ==
    LET s == scrape_feed(url, resp) IN
    IF s.result.error # "none"
    THEN [events |-> s.events, result |-> s.result,
          feed |-> [title |-> "", items |-> <<>>], commands |-> <<>>]
    ELSE [events |-> s.events, result |-> s.result, feed |-> feed_content(resp),
          commands |-> project_feed(url, s.result.feed_type, feed_content(resp), a)]

\* SitemapURL: loc, lastmod, changefreq and str(priority)
SitemapURL(loc, lastmod, changefreq, priority) ==
    [loc |-> loc, lastmod |-> lastmod, changefreq |-> changefreq, priority |-> priority]

\* one sitemap_contains command per url entry of a sitemap
sitemap_commands(current_url, urls, a) ==
    [i \in 1..Len(urls) |->
        AttestationCommand(current_url, "sitemap_contains", urls[i].loc, a,
            SourceAttr @@ OptAttr("lastmod", urls[i].lastmod)
                       @@ OptAttr("changefreq", urls[i].changefreq)
                       @@ ("priority" :> urls[i].priority))]

-----------------------------------------------------------------------------
(* Spec: the workflows of one engine *)

Call(kind, url, limit, flag, skip) ==
    [kind |-> kind, url |-> url, limit |-> limit, flag |-> flag, skip |-> skip]
NoCall == Call("none", HttpUrl("", ""), 0, FALSE, FALSE)

\* The parts of the state the workflows do not touch, at rest.
RateIdle ==
    /\ now = 0 /\ min_interval = -1 /\ crawl_delay = 0
    /\ last_request = <<>> /\ wpc = <<>> /\ wdomain = <<>> /\ wlocal = <<>>
    /\ fetches = {}
FetchIdle ==
    /\ max_response_size = 0
    /\ response = [status |-> 0, content_length |-> -1, body |-> 0, ctype_ok |-> TRUE]
    /\ fpc = "idle" /\ content = 0 /\ delivered = -1

AttestIdle == sink = <<>> /\ actor = "" /\ runs = {}
ParseIdle == document = <<>> /\ parsed_urls = <<>>
RobotsIdle == rpc = <<>> /\ rlocal = <<>> /\ robots_gets = <<>>
RaceIdle == hpc = <<>> /\ hlocal = <<>>
AtomIdle == feed_root = <<>> /\ feed_result = <<>>
StoreIdle == store = {}
ExtIdle == ParseIdle /\ RobotsIdle /\ RaceIdle /\ AtomIdle /\ StoreIdle
NoExchange == [method |-> "", path |-> "", body |-> "", last |-> "none",
               status |-> 0, called |-> FALSE]
NoHealth == [asked |-> FALSE, completed |-> "none", healthy |-> FALSE,
             ats_store |-> "", pulse_queue |-> ""]
\* The plugin after an Initialize with a sink endpoint and no queue endpoint.
\* scraper_ats: the scraper was built with a sink client; last: the last of
\* Initialize / Shutdown to have run; completed: the last of them to have
\* returned normally; open: the clients held whose channel is open;
\* supplied: the endpoints the last Initialize was given.
PluginIdle ==
    /\ plugin = [scraper |-> TRUE, scraper_ats |-> TRUE, ats_client |-> TRUE,
                 pulse_client |-> FALSE, last |-> "Initialize",
                 completed |-> "Initialize", open |-> {"ats"}, supplied |-> {"ats"}]
    /\ http = NoExchange
    /\ health = NoHealth

\* WebScraper.__init__: empty robots cache, no call yet.
WorkflowsInit ==
    /\ allow_private_ips \in BOOLEAN
    /\ respect_robots \in BOOLEAN
    /\ rate_limiter \in BOOLEAN
    /\ parsers = <<>>
    /\ pc = "idle" /\ call = NoCall
    /\ trace = <<>> /\ result = <<>>
    /\ visited = {} /\ to_visit = <<>>

Init == WorkflowsInit /\ RateIdle /\ FetchIdle /\ AttestIdle /\ ExtIdle /\ PluginIdle

\* Spec follows one workflow call on a freshly constructed engine.
CanCall == pc = "idle"

\* scrape(url), as /scrape and /scrape-full call it
CallScrape ==
    /\ CanCall
    /\ \E url \in Urls, robots_txt \in Policies, resp \in PageResponses :
      \E s \in {scrape(url, parsers, robots_txt, resp)} :
        /\ call' = Call("scrape", url, 0, FALSE, FALSE)
        /\ trace' = s.events
        /\ parsers' = s.parsers
        /\ result' = returned_records(s.result)
        /\ pc' = ends(s.result.error)
        /\ visited' = {} /\ to_visit' = <<>>
        /\ UNCHANGED <<allow_private_ips, respect_robots, rate_limiter, ratevars, fetchvars, attvars, plugvars, extvars>>

\* scrape_feed(url), as /feed calls it
CallScrapeFeed ==
    /\ CanCall
    /\ \E url \in Urls, resp \in FeedResponses :
      \E s \in {scrape_feed(url, resp)} :
        /\ call' = Call("scrape_feed", url, 0, FALSE, FALSE)
        /\ trace' = s.events
        /\ result' = returned_records(s.result)
        /\ pc' = ends(s.result.error)
        /\ visited' = {} /\ to_visit' = <<>>
        /\ UNCHANGED <<allow_private_ips, respect_robots, rate_limiter, parsers,
                       ratevars, fetchvars, attvars, plugvars, extvars>>

\* scrape_sitemap(url), as /sitemap calls it
CallScrapeSitemap ==
    /\ CanCall
    /\ \E url \in Urls, resp \in SitemapResponses :
      \E s \in {scrape_sitemap(url, resp)} :
        /\ call' = Call("scrape_sitemap", url, 0, FALSE, FALSE)
        /\ trace' = s.events
        /\ result' = returned_records(s.result)
        /\ pc' = ends(s.result.error)
        /\ visited' = {} /\ to_visit' = <<>>
        /\ UNCHANGED <<allow_private_ips, respect_robots, rate_limiter, parsers,
                       ratevars, fetchvars, attvars, plugvars, extvars>>

InSeq(x, q) == \E i \in 1..Len(q) : q[i] = x

\* scrape_sitemap_and_attest up to its loop: results = [], to_process = [url],
\* processed = set()
CallSitemapAndAttest ==
    /\ CanCall /\ runs = {}
    /\ \E url \in SitemapUrls \cup {HttpUrl("10.0.0.1", "/")},
          follow_nested \in BOOLEAN, max_nested \in 0..MaxNested :
        /\ call' = Call("scrape_sitemap_and_attest", url, max_nested, follow_nested, FALSE)
        /\ trace' = <<>> /\ result' = <<>>
        /\ visited' = {} /\ to_visit' = <<url>>
        /\ pc' = "sitemaps"
        /\ actor' \in Actors /\ sink' = <<>>
        /\ UNCHANGED <<allow_private_ips, respect_robots, rate_limiter, parsers,
                       ratevars, fetchvars, runs, plugvars, extvars>>

RECURSIVE queue_nested(_, _, _)
queue_nested(sitemaps, queue, processed) ==
    IF sitemaps = <<>> THEN queue
    ELSE LET nested == Head(sitemaps) IN
         queue_nested(Tail(sitemaps),
                      IF nested \notin processed /\ ~InSeq(nested, queue)
                      THEN Append(queue, nested) ELSE queue,
                      processed)

\* one sitemap_contains command per url entry, sent to the sink
attest_sitemap_urls(current_url, urls) ==
    [i \in 1..Len(urls) |-> [op |-> "sink", url |-> current_url]]

\* Mutant: the loop ignores max_nested.
SitemapLoopCondUnbounded == to_visit # <<>>

\* Mutant: the loop stops one sitemap early.
SitemapLoopCondOffByOne == to_visit # <<>> /\ Cardinality(visited) + 1 < call.limit

\* `while to_process and len(processed) < max_nested`
SitemapLoopCond == to_visit # <<>> /\ Cardinality(visited) < call.limit

\* one iteration of `while to_process and len(processed) < max_nested`
SitemapIter ==
    /\ pc = "sitemaps" /\ SitemapLoopCond
    /\ \E resp \in SitemapResponses :
      \E current_url \in {Head(to_visit)} :
      \E s \in {scrape_sitemap(current_url, resp)} :
        /\ IF current_url \in visited
           THEN /\ to_visit' = Tail(to_visit)
                /\ UNCHANGED <<visited, trace, result, sink>>
           ELSE /\ visited' = visited \cup {current_url}
                /\ result' = Append(result, s.result)
                /\ IF s.result.error # "none"
                   THEN /\ to_visit' = Tail(to_visit)
                        /\ trace' = trace \o s.events
                        /\ UNCHANGED sink
                   ELSE /\ to_visit' = IF call.flag
                                       THEN queue_nested(s.result.sitemaps, Tail(to_visit),
                                                         visited \cup {current_url})
                                       ELSE Tail(to_visit)
                        /\ trace' = trace \o s.events
                                          \o attest_sitemap_urls(current_url, s.result.urls)
                        /\ sink' = sink \o sitemap_commands(current_url, s.result.urls, actor)
        /\ UNCHANGED <<allow_private_ips, respect_robots, rate_limiter, parsers, pc, call,
                       ratevars, fetchvars, actor, runs, plugvars, extvars>>

\* the loop ends and the function returns (results, attestation_ids)
SitemapReturn ==
    /\ pc = "sitemaps" /\ ~SitemapLoopCond
    /\ pc' = "returned"
    /\ UNCHANGED <<allow_private_ips, respect_robots, rate_limiter, parsers, call,
                   trace, result, visited, to_visit, ratevars, fetchvars, attvars, plugvars, extvars>>

\* scrape_sitemap_and_attest alone, its loop scheduled until it ends: the
\* function runs on one thread and nothing in the loop blocks for ever.
NextSitemapWalk == CallSitemapAndAttest \/ SitemapIter \/ SitemapReturn

\* scrape_sitemap consults neither the robots cache nor anything but the
\* rate limiter's gate: the engine has both, private addresses allowed or not
InitSitemapWalk == Init /\ respect_robots /\ rate_limiter

SpecSitemapWalk ==
    InitSitemapWalk /\ [][NextSitemapWalk]_vars
        /\ WF_vars(SitemapIter) /\ WF_vars(SitemapReturn)

CrawlStarts == {HttpUrl("example.com", "/"), HttpUrl("10.0.0.1", "/")}

\* _was_previously_crawled(url) as the crawl logs it: the sink reported a
\* has_title attestation for url ("attested"), or it did not, there being no
\* sink client or the query having failed included ("not_attested").
was_previously_crawled(url, previously_crawled) ==
    <<Event(IF previously_crawled THEN "attested" ELSE "not_attested", url)>>

\* Mutant: an attested URL is crawled all the same.
should_skip_never(skip_previously_crawled, previously_crawled) == FALSE

\* `if skip_previously_crawled and self._was_previously_crawled(url)`
should_skip(skip_previously_crawled, previously_crawled) ==
    skip_previously_crawled /\ previously_crawled

\* crawl up to its loop.  previously_crawled is the answer of
\* _was_previously_crawled(start_url).
CallCrawl ==
    /\ CanCall
    /\ \E start_url \in CrawlStarts, max_pages \in 0..MaxPages, same_domain_only \in BOOLEAN,
       skip_previously_crawled \in BOOLEAN, previously_crawled \in BOOLEAN :
        /\ call' = Call("crawl", start_url, max_pages, same_domain_only, skip_previously_crawled)
        /\ trace' = IF skip_previously_crawled
                    THEN was_previously_crawled(start_url, previously_crawled) ELSE <<>>
        /\ result' = <<>>
        /\ visited' = {}
        /\ to_visit' = <<start_url>>
        /\ pc' = IF should_skip(skip_previously_crawled, previously_crawled)
                 THEN "returned" ELSE "crawl"
        /\ UNCHANGED <<allow_private_ips, respect_robots, rate_limiter, parsers,
                       ratevars, fetchvars, attvars, plugvars, extvars>>

\* Mutant: new links go to the front of the queue (depth first).
RECURSIVE enqueue_links_front(_, _, _, _)
enqueue_links_front(links, queue, seen, same_domain_only) ==
    IF links = <<>> THEN queue
    ELSE LET link == Head(links)
             skip == \/ link.target_url \in seen
                     \/ InSeq(link.target_url, queue)
                     \/ (same_domain_only /\ link.is_external)
         IN enqueue_links_front(Tail(links),
                                IF skip THEN queue ELSE <<link.target_url>> \o queue,
                                seen, same_domain_only)

\* Mutant: a link is queued although it is queued or visited already.
RECURSIVE enqueue_links_again(_, _, _, _)
enqueue_links_again(links, queue, seen, same_domain_only) ==
    IF links = <<>> THEN queue
    ELSE LET link == Head(links)
             skip == same_domain_only /\ link.is_external
         IN enqueue_links_again(Tail(links),
                                IF skip THEN queue ELSE Append(queue, link.target_url),
                                seen, same_domain_only)

\* Mutant: same_domain_only is ignored when links are queued.
RECURSIVE enqueue_links_any_domain(_, _, _, _)
enqueue_links_any_domain(links, queue, seen, same_domain_only) ==
    IF links = <<>> THEN queue
    ELSE LET link == Head(links)
             skip == \/ link.target_url \in seen
                     \/ InSeq(link.target_url, queue)
         IN enqueue_links_any_domain(Tail(links),
                                     IF skip THEN queue ELSE Append(queue, link.target_url),
                                     seen, same_domain_only)

RECURSIVE enqueue_links(_, _, _, _)
enqueue_links(links, queue, seen, same_domain_only) ==
    IF links = <<>> THEN queue
    ELSE LET link == Head(links)
             skip == \/ link.target_url \in seen
                     \/ InSeq(link.target_url, queue)
                     \/ (same_domain_only /\ link.is_external)
         IN enqueue_links(Tail(links),
                          IF skip THEN queue ELSE Append(queue, link.target_url),
                          seen, same_domain_only)

\* Mutant: off by one in the page budget.
CrawlLoopCondOffByOne == to_visit # <<>> /\ Cardinality(visited) <= call.limit

\* `while to_visit and len(visited) < max_pages`
CrawlLoopCond == to_visit # <<>> /\ Cardinality(visited) < call.limit

\* Mutant: a page that failed ends the crawl.
after_yield_abort(kind, error) ==
    IF error # "none" THEN "returned"
    ELSE IF kind = "crawl_and_attest" THEN "attest" ELSE "crawl"

\* Where control is after `yield result`: in the loop of the generator, with
\* or without error (`if result.error: continue`), or, under
\* crawl_and_attest, first in the consumer's loop body.
after_yield(kind, error) == IF kind = "crawl_and_attest" THEN "attest" ELSE "crawl"

\* Mutant: a skipped URL is not marked as visited.
mark_skipped_not(seen, url) == seen

\* `visited.add(url)  # Mark as visited to avoid re-checking` on a skip
mark_skipped(seen, url) == seen \cup {url}

\* one iteration of `while to_visit and len(visited) < max_pages`, up to and
\* including the yield and the queueing of the page's links.  Under
\* crawl_and_attest the consumer's loop body runs at the yield (AttestPage).
CrawlIter ==
    /\ pc = "crawl" /\ CrawlLoopCond
    /\ \E previously_crawled \in BOOLEAN, robots_txt \in Policies, resp \in PageResponses :
      \E url \in {Head(to_visit)} :
      \E s \in {scrape(url, parsers, robots_txt, resp)} :
        /\ IF url \in visited
           THEN /\ to_visit' = Tail(to_visit)
                /\ UNCHANGED <<visited, trace, result, parsers, pc>>
           ELSE IF should_skip(call.skip, previously_crawled)
           THEN /\ to_visit' = Tail(to_visit)
                /\ visited' = mark_skipped(visited, url)
                /\ trace' = trace \o was_previously_crawled(url, TRUE)
                /\ UNCHANGED <<result, parsers, pc>>
           ELSE /\ visited' = visited \cup {url}
                /\ trace' = trace \o (IF call.skip
                                        THEN was_previously_crawled(url, previously_crawled)
                                        ELSE <<>>) \o s.events
                /\ parsers' = s.parsers
                /\ result' = Append(result, s.result)
                /\ to_visit' = IF s.result.error # "none"
                               THEN Tail(to_visit)
                               ELSE enqueue_links(s.result.links, Tail(to_visit),
                                                  visited \cup {url}, call.flag)
                /\ pc' = after_yield(call.kind, s.result.error)
        /\ UNCHANGED <<allow_private_ips, respect_robots, rate_limiter, call,
                       ratevars, fetchvars, attvars, plugvars, extvars>>

\* the loop ends: the generator is exhausted
CrawlReturn ==
    /\ pc = "crawl" /\ ~CrawlLoopCond
    /\ pc' = "returned"
    /\ UNCHANGED <<allow_private_ips, respect_robots, rate_limiter, parsers, call,
                   trace, result, visited, to_visit, ratevars, fetchvars, attvars, plugvars, extvars>>

Next ==
    \/ CallScrape
    \/ CallScrapeFeed
    \/ CallScrapeSitemap
    \/ CallSitemapAndAttest
    \/ SitemapIter
    \/ SitemapReturn
    \/ CallCrawl
    \/ CrawlIter
    \/ CrawlReturn

Spec == Init /\ [][Next]_vars

-----------------------------------------------------------------------------
(* SpecAttest: the workflows that send commands to the sink.  One call on a *)
(* fresh engine, or two scrape_and_attest calls one after the other.        *)

Image(i, alt) == [src |-> i, alt |-> alt, title |-> ""]
\* n images, the i-th with src i; those at the positions of noalt have no alt
Images(n, noalt) == [i \in 1..n |-> Image(i, IF i \in noalt THEN "" ELSE "alt")]
ImageLists == {Images(0, {}), Images(2, {1}), Images(MaxImages, {}), Images(MaxImages, {1}),
               Images(MaxImages, {2, MaxImages - 1})}

PageResponse(title, description, author, published_date, canonical_url, images, structured_data, links) ==
    [status |-> "ok", links |-> links, title |-> title, description |-> description,
     author |-> author, published_date |-> published_date, canonical_url |-> canonical_url,
     images |-> images, structured_data |-> structured_data]
ErrorResponse == [PageResponse("", "", "", "", NoUrl, <<>>, <<>>, <<>>) EXCEPT !.status = "error"]
BarePage == PageResponse("", "", "", "", NoUrl, <<>>, <<>>, <<>>)
FullPage(images) ==
    PageResponse("T", "D", "A", "2024-01-01", HttpUrl("example.com", "/a"), images,
                 <<[type |-> "Article", data |-> "{}"]>>, <<>>)
LinkPage(links) == PageResponse("T", "", "", "", NoUrl, <<>>, <<>>, links)
LinkLists == {<<HttpUrl("example.com", "/a")>>,
              <<HttpUrl("example.com", "/a"), HttpUrl("other.org", "/z")>>}

AttestResponses == {ErrorResponse, BarePage} \cup {FullPage(l) : l \in ImageLists}
                      \cup {LinkPage(l) : l \in LinkLists}
\* what the second fetch of a crawled page can answer
RefetchResponses == {ErrorResponse, BarePage}
                       \cup {LinkPage(<<HttpUrl("example.com", "/a"), HttpUrl("other.org", "/z")>>)}
AttestUrls == {HttpUrl("example.com", "/"), HttpUrl("example.com", "/a"),
               HttpUrl("10.0.0.1", "/")}

FeedItem(title, link) == [title |-> title, link |-> link, published |-> "", author |-> ""]
ItemLists == {<<>>,
              <<FeedItem("one", "http://example.com/1")>>,
              <<FeedItem("none", ""), FeedItem("", "http://example.com/2")>>,
              <<FeedItem("one", "http://example.com/1"), FeedItem("none", ""),
                [FeedItem("three", "http://example.com/3") EXCEPT !.published = "2024-01-01",
                                                                  !.author = "A"]>>}
FeedAttestResponses ==
    {[status |-> r.status, feed_type |-> r.feed_type, error |-> r.error,
      title |-> t, items |-> i] :
        r \in FeedResponses, t \in {"", "F"}, i \in ItemLists}

\* scrape_and_attest(url, actor, include_external, extract_all), as
\* /scrape-and-attest calls it.  call.flag is include_external, call.skip is
\* extract_all; result is <<the ScrapeResult's record and links, its content>>.
CallScrapeAndAttest ==
    /\ CanCall
    /\ \E url \in AttestUrls, a \in Actors, include_external \in BOOLEAN,
          extract_all \in BOOLEAN, robots_txt \in Policies, resp \in AttestResponses :
      \E r \in {scrape_and_attest(url, a, include_external, extract_all, parsers,
                                  robots_txt, resp)} :
        /\ call' = Call("scrape_and_attest", url, 0, include_external, extract_all)
        /\ actor' = a
        /\ trace' = r.events
        /\ parsers' = r.parsers
        /\ result' = <<r.result, r.page>>
        /\ sink' = r.commands
        /\ pc' = "returned"
        /\ visited' = {} /\ to_visit' = <<>>
        /\ UNCHANGED <<allow_private_ips, respect_robots, rate_limiter, runs,
                       ratevars, fetchvars, plugvars, extvars>>

\* The handler has answered and the next request reaches the same engine:
\* what the call projected is kept for comparison, the robots cache stays.
NextRequest ==
    /\ pc = "returned" /\ call.kind = "scrape_and_attest" /\ runs = {}
    /\ runs' = {[result |-> result, actor |-> actor, include_external |-> call.flag,
                 commands |-> sink]}
    /\ pc' = "idle" /\ call' = NoCall
    /\ trace' = <<>> /\ result' = <<>> /\ sink' = <<>> /\ actor' = ""
    /\ UNCHANGED <<allow_private_ips, respect_robots, rate_limiter, parsers, visited, to_visit,
                   ratevars, fetchvars, plugvars, extvars>>

\* scrape_feed_and_attest(url, actor), as /feed-and-attest calls it
CallFeedAndAttest ==
    /\ CanCall /\ runs = {}
    /\ \E url \in AttestUrls, a \in Actors, resp \in FeedAttestResponses :
      \E r \in {scrape_feed_and_attest(url, a, resp)} :
        /\ call' = Call("scrape_feed_and_attest", url, 0, FALSE, FALSE)
        /\ actor' = a
        /\ trace' = r.events
        /\ result' = <<r.result, r.feed>>
        /\ sink' = r.commands
        /\ pc' = "returned"
        /\ visited' = {} /\ to_visit' = <<>>
        /\ UNCHANGED <<allow_private_ips, respect_robots, rate_limiter, parsers, runs,
                       ratevars, fetchvars, plugvars, extvars>>

\* crawl_and_attest up to the first step of the generator it consumes
CallCrawlAndAttest ==
    /\ CanCall /\ runs = {}
    /\ \E start_url \in CrawlStarts, max_pages \in 0..MaxAttestPages,
       same_domain_only \in BOOLEAN, skip_previously_crawled \in BOOLEAN,
       previously_crawled \in BOOLEAN, a \in Actors :
        /\ call' = Call("crawl_and_attest", start_url, max_pages, same_domain_only,
                        skip_previously_crawled)
        /\ actor' = a /\ sink' = <<>>
        /\ trace' = IF skip_previously_crawled
                    THEN was_previously_crawled(start_url, previously_crawled) ELSE <<>>
        /\ result' = <<>>
        /\ visited' = {}
        /\ to_visit' = <<start_url>>
        /\ pc' = IF should_skip(skip_previously_crawled, previously_crawled)
                 THEN "returned" ELSE "crawl"
        /\ UNCHANGED <<allow_private_ips, respect_robots, rate_limiter, parsers, runs,
                       ratevars, fetchvars, plugvars, extvars>>

\* The body of the for loop of crawl_and_attest for the page just yielded:
\* all_results.append(result); a page with error is passed over, any other
\* is handed to scrape_and_attest(result.url, ...), which scrapes it itself.
AttestPage ==
    /\ pc = "attest"
    /\ pc' = "crawl"
    /\ IF result[Len(result)].error # "none"
       THEN UNCHANGED <<trace, parsers, sink>>
       ELSE \E robots_txt \in Policies, resp \in RefetchResponses :
            \E r \in {scrape_and_attest(result[Len(result)].url, actor, ~call.flag, TRUE,
                                        parsers, robots_txt, resp)} :
              /\ trace' = trace \o r.events
              /\ parsers' = r.parsers
              /\ sink' = sink \o r.commands
    /\ UNCHANGED <<allow_private_ips, respect_robots, rate_limiter, call, result, visited,
                   to_visit, actor, runs, ratevars, fetchvars, plugvars, extvars>>

NextAttest ==
    \/ CallScrapeAndAttest
    \/ NextRequest
    \/ CallFeedAndAttest
    \/ CallSitemapAndAttest
    \/ SitemapIter
    \/ SitemapReturn
    \/ CallCrawlAndAttest
    \/ CrawlIter
    \/ AttestPage
    \/ CrawlReturn

\* an engine as the plugin builds it by default: private addresses refused
InitAttest == Init /\ ~allow_private_ips

SpecAttest == InitAttest /\ [][NextAttest]_vars

-----------------------------------------------------------------------------
(* SpecSeq, SpecPool: RateLimiter.wait against a clock *)

Threads == 1..PoolSize
Domains == {"x.test", "y.test"}

WorkflowsIdle ==
    /\ allow_private_ips = FALSE /\ respect_robots = TRUE
    /\ parsers = <<>> /\ pc = "idle" /\ call = NoCall
    /\ trace = <<>> /\ result = <<>> /\ visited = {} /\ to_visit = <<>>

\* RateLimiter.__init__ (min_interval = 1.0 / requests_per_second), built only
\* when rate_limit > 0; the threads are idle.
RateInit(threads, quota) ==
    /\ now = 0
    /\ rate_limiter \in BOOLEAN
    /\ min_interval \in (IF rate_limiter THEN 1..MaxInterval ELSE {-1})
    /\ crawl_delay \in 0..MaxCrawlDelay
    /\ last_request = <<>>
    /\ wpc = [t \in threads |-> "idle"]
    /\ wdomain = [t \in threads |-> "none"]
    /\ wlocal = [t \in threads |->
                    [now |-> 0, wake |-> 0, stamp |-> -1, slept |-> FALSE, done |-> 0,
                     quota |-> quota]]
    /\ fetches = {}

InitSeq == WorkflowsIdle /\ FetchIdle /\ AttestIdle /\ ExtIdle /\ PluginIdle /\ RateInit({1}, MaxFetches)
InitPool == WorkflowsIdle /\ FetchIdle /\ AttestIdle /\ ExtIdle /\ PluginIdle /\ RateInit(Threads, PoolFetches)

\* RobotsChecker.get_crawl_delay: the Crawl-delay of the cached robots.txt.
\* No caller: RateLimiter.wait never reads it.
get_crawl_delay(domain) == crawl_delay

RateUnchanged == UNCHANGED <<allow_private_ips, respect_robots, rate_limiter, parsers, pc, call,
                             trace, result, visited, to_visit, min_interval, crawl_delay,
                             fetchvars, attvars, plugvars, extvars>>

\* time passes
Tick ==
    /\ now < MaxTime
    /\ now' = now + 1
    /\ UNCHANGED <<last_request, wpc, wdomain, wlocal, fetches>>
    /\ RateUnchanged

\* a workflow reaches self._rate_limit(url): wait() is entered if there is a
\* limiter, else the fetch follows at once
BeginFetch(t) ==
    /\ wpc[t] = "idle" /\ wlocal[t].done < wlocal[t].quota
    /\ \E d \in Domains : wdomain' = [wdomain EXCEPT ![t] = d]
    /\ wpc' = [wpc EXCEPT ![t] = IF rate_limiter THEN "wait" ELSE "get"]
    /\ wlocal' = [wlocal EXCEPT ![t].stamp = -1, ![t].slept = FALSE]
    /\ UNCHANGED <<now, last_request, fetches>>
    /\ RateUnchanged

\* now = time.time()
WaitReadClock(t) ==
    /\ wpc[t] = "wait"
    /\ wlocal' = [wlocal EXCEPT ![t].now = now]
    /\ wpc' = [wpc EXCEPT ![t] = "check"]
    /\ UNCHANGED <<now, last_request, wdomain, fetches>>
    /\ RateUnchanged

\* Mutant: sleeps a tick less than the remainder.
sleep_time_short(elapsed) == min_interval - elapsed - 1

\* sleep_time = self.min_interval - elapsed
sleep_time(elapsed) == min_interval - elapsed

\* if domain in self.last_request: elapsed = ...; if elapsed < min_interval:
\* time.sleep(sleep_time) is called
WaitCheck(t) ==
    /\ wpc[t] = "check"
    /\ IF wdomain[t] \in DOMAIN last_request
          /\ wlocal[t].now - last_request[wdomain[t]] < min_interval
       THEN /\ wlocal' = [wlocal EXCEPT
                            ![t].wake = now + sleep_time(wlocal[t].now - last_request[wdomain[t]]),
                            ![t].slept = TRUE]
            /\ wpc' = [wpc EXCEPT ![t] = "sleep"]
       ELSE /\ wpc' = [wpc EXCEPT ![t] = "stamp"]
            /\ UNCHANGED wlocal
    /\ UNCHANGED <<now, last_request, wdomain, fetches>>
    /\ RateUnchanged

\* time.sleep returns, no sooner than asked
WaitWake(t) ==
    /\ wpc[t] = "sleep" /\ now >= wlocal[t].wake
    /\ wpc' = [wpc EXCEPT ![t] = "stamp"]
    /\ UNCHANGED <<now, last_request, wdomain, wlocal, fetches>>
    /\ RateUnchanged

\* self.last_request[domain] = time.time(): the right-hand side
WaitStamp(t) ==
    /\ wpc[t] = "stamp"
    /\ wlocal' = [wlocal EXCEPT ![t].stamp = now]
    /\ wpc' = [wpc EXCEPT ![t] = "store"]
    /\ UNCHANGED <<now, last_request, wdomain, fetches>>
    /\ RateUnchanged

\* self.last_request[domain] = time.time(): the store
WaitStore(t) ==
    /\ wpc[t] = "store"
    /\ last_request' = (wdomain[t] :> wlocal[t].stamp) @@ last_request
    /\ wpc' = [wpc EXCEPT ![t] = "get"]
    /\ UNCHANGED <<now, wdomain, wlocal, fetches>>
    /\ RateUnchanged

\* the workflow goes on to _fetch_with_size_limit: session.get starts
StartGet(t) ==
    /\ wpc[t] = "get"
    /\ fetches' = fetches \cup {[thread |-> t, n |-> wlocal[t].done + 1,
                                 domain |-> wdomain[t], gate |-> wlocal[t].stamp,
                                 start |-> now, slept |-> wlocal[t].slept]}
    /\ wlocal' = [wlocal EXCEPT ![t].done = @ + 1]
    /\ wpc' = [wpc EXCEPT ![t] = "idle"]
    /\ UNCHANGED <<now, last_request, wdomain>>
    /\ RateUnchanged

NextRate ==
    \/ Tick
    \/ \E t \in DOMAIN wpc : BeginFetch(t)
    \/ \E t \in DOMAIN wpc : WaitReadClock(t)
    \/ \E t \in DOMAIN wpc : WaitCheck(t)
    \/ \E t \in DOMAIN wpc : WaitWake(t)
    \/ \E t \in DOMAIN wpc : WaitStamp(t)
    \/ \E t \in DOMAIN wpc : WaitStore(t)
    \/ \E t \in DOMAIN wpc : StartGet(t)

SpecSeq == InitSeq /\ [][NextRate]_vars
SpecPool == InitPool /\ [][NextRate]_vars

-----------------------------------------------------------------------------
(* SpecFetch: _fetch_with_size_limit, lengths in bytes *)

\* response.iter_content(chunk_size=8192)
ChunkSize == 8192

Min(a, b) == IF a <= b THEN a ELSE b

\* values of max_response_size: the one of the unit test, one chunk, and one
\* that is not a multiple of the chunk size
Caps == {100, ChunkSize, 2 * ChunkSize + 1}

\* lengths of the body that the stream yields
BodySizes(cap) ==
    {0, 1, cap - 1, cap, cap + 1, 2 * cap, cap + ChunkSize, MaxChunks * ChunkSize}

\* Content-Length: absent (-1), truthful, understated or overstated. What the
\* stream yields does not depend on it.
ContentLengths(cap, body) == {-1, body, body \div 2, 0, body + cap + 1}

Responses(cap) ==
    UNION { { [status |-> 200, content_length |-> cl, body |-> b, ctype_ok |-> ct] :
                cl \in ContentLengths(cap, b), ct \in BOOLEAN } : b \in BodySizes(cap) }
    \cup { [status |-> 404, content_length |-> -1, body |-> 0, ctype_ok |-> TRUE] }

InitFetch ==
    /\ WorkflowsIdle /\ rate_limiter = FALSE /\ RateIdle /\ AttestIdle /\ ExtIdle /\ PluginIdle
    /\ max_response_size \in Caps
    /\ response = [status |-> 0, content_length |-> -1, body |-> 0, ctype_ok |-> TRUE]
    /\ fpc = "call" /\ content = 0 /\ delivered = -1

FetchUnchanged == UNCHANGED <<wfvars, ratevars, max_response_size, attvars, plugvars, extvars>>

\* response = self.session.get(url, stream=True); response.raise_for_status()
Get ==
    /\ fpc = "call"
    /\ \E r \in Responses(max_response_size) :
        /\ response' = r
        /\ fpc' = IF r.status >= 400 THEN "raised_http" ELSE "headers"
    /\ UNCHANGED <<content, delivered>>
    /\ FetchUnchanged

\* Mutant: a Content-Type that matches none of the expected ones is refused.
wrong_content_type_refused(ctype_ok) == ~ctype_ok

\* `if not any(ct in content_type for ct in expected_content_types):
\*      logger.warning(...)`: whether the check makes the fetch raise
wrong_content_type(ctype_ok) == FALSE

\* the Content-Type check only logs; a Content-Length above the cap raises
\* ValueError; else content = b""
CheckHeaders ==
    /\ fpc = "headers"
    /\ fpc' = IF wrong_content_type(response.ctype_ok) THEN "raised_content_type"
              ELSE IF response.content_length # -1
                      /\ response.content_length > max_response_size
              THEN "raised_too_large" ELSE "reading"
    /\ content' = 0
    /\ UNCHANGED <<response, delivered>>
    /\ FetchUnchanged

\* Mutant: the accumulated length is never found too large.
exceeds_never(len, cap) == FALSE

\* if len(content) > self.max_response_size
exceeds(len, cap) == len > cap

\* one turn of the loop: content += chunk, then the check
ReadChunk ==
    /\ fpc = "reading" /\ content < response.body
    /\ \E want \in {ChunkSize, ChunkSize \div 2} :
        /\ content' = content + Min(want, response.body - content)
        /\ fpc' = IF exceeds(content', max_response_size) THEN "raised_exceeded" ELSE "reading"
    /\ UNCHANGED <<response, delivered>>
    /\ FetchUnchanged

\* the stream breaks: iter_content raises a RequestException
StreamError ==
    /\ fpc = "reading" /\ content < response.body
    /\ fpc' = "raised_request"
    /\ UNCHANGED <<response, content, delivered>>
    /\ FetchUnchanged

\* the stream is exhausted: return content
Return ==
    /\ fpc = "reading" /\ content = response.body
    /\ delivered' = content
    /\ fpc' = "returned"
    /\ UNCHANGED <<response, content>>
    /\ FetchUnchanged

NextFetch == Get \/ CheckHeaders \/ ReadChunk \/ StreamError \/ Return

SpecFetch == InitFetch /\ [][NextFetch]_vars

-----------------------------------------------------------------------------
(* SpecPlugin: WebScraperPlugin, its life cycle and its HTTP routing *)

Methods == {"GET", "POST", "PUT", "DELETE"}
HarvestPaths == {"/scrape", "/scrape-full", "/scrape-and-attest", "/feed", "/feed-and-attest",
                 "/sitemap", "/sitemap-and-attest", "/crawl"}
AttestPaths == {"/scrape-and-attest", "/feed-and-attest", "/sitemap-and-attest", "/crawl"}
SchedulePaths == {"/schedule/scrape", "/schedule/feed", "/schedule/sitemap", "/schedule/crawl"}
Paths == HarvestPaths \cup SchedulePaths \cup {"/jobs", "/nope", "/"}
\* request.body: empty, not JSON, a JSON object without url, one with url
Bodies == {"", "malformed", "{}", "{url}"}

\* WebScraperPlugin.__init__
InitPlugin ==
    /\ WorkflowsIdle /\ rate_limiter = FALSE /\ RateIdle /\ FetchIdle /\ AttestIdle /\ ExtIdle
    /\ plugin = [scraper |-> FALSE, scraper_ats |-> FALSE, ats_client |-> FALSE,
                 pulse_client |-> FALSE, last |-> "none", completed |-> "none", open |-> {},
                 supplied |-> {}]
    /\ http = NoExchange
    /\ health = NoHealth

\* Initialize: the clients are connected if their endpoint is given, then
\* the scraper is built; a config value that int() or float() rejects raises
\* before that.
initialize(plug, ats_endpoint, queue_endpoint, config_ok) ==
    LET ats == plug.ats_client \/ ats_endpoint
        pulse == plug.pulse_client \/ queue_endpoint
        supplied == (IF ats_endpoint THEN {"ats"} ELSE {})
                      \cup (IF queue_endpoint THEN {"pulse"} ELSE {})
        open == plug.open \cup supplied
    IN IF config_ok
       THEN [scraper |-> TRUE, scraper_ats |-> ats, ats_client |-> ats,
             pulse_client |-> pulse, last |-> "Initialize", completed |-> "Initialize",
             open |-> open, supplied |-> supplied]
       ELSE [plug EXCEPT !.ats_client = ats, !.pulse_client = pulse,
                         !.last = "InitializeFailed", !.open = open,
                         !.supplied = supplied]

\* Mutant: Shutdown leaves the scraper in place.
shutdown_keeps_scraper(plug) ==
    [plug EXCEPT !.ats_client = FALSE, !.pulse_client = FALSE, !.last = "Shutdown",
                 !.completed = "Shutdown", !.open = {}, !.supplied = {}]

\* Shutdown
shutdown(plug) ==
    [scraper |-> FALSE, scraper_ats |-> FALSE, ats_client |-> FALSE, pulse_client |-> FALSE,
     last |-> "Shutdown", completed |-> "Shutdown",
     open |-> (plug.open \ (IF plug.ats_client THEN {"ats"} ELSE {}))
                 \ (IF plug.pulse_client THEN {"pulse"} ELSE {}),
     supplied |-> {}]

\* Mutant: healthy means that the sink client is connected.
health_of_sink(plug) ==
    [healthy |-> plug.ats_client,
     ats_store |-> IF plug.ats_client THEN "connected" ELSE "not connected",
     pulse_queue |-> IF plug.pulse_client THEN "connected" ELSE "not configured"]

\* Health: healthy = self.scraper is not None, and the details
health_of(plug) ==
    [healthy |-> plug.scraper,
     ats_store |-> IF plug.ats_client THEN "connected" ELSE "not connected",
     pulse_queue |-> IF plug.pulse_client THEN "connected" ELSE "not configured"]

Answer(status, called) == [status |-> status, called |-> called]

\* _handle_scrape, _handle_scrape_and_attest, _handle_feed, ..., _handle_crawl:
\* called is whether the handler called into the scraper; raised is whether
\* that call raised.
handle_harvest(path, body, plug, raised) ==
    IF body # "{url}" THEN Answer(400, FALSE)
    ELSE IF ~plug.scraper THEN Answer(503, FALSE)
    ELSE IF path \in AttestPaths /\ ~plug.scraper_ats THEN Answer(500, TRUE)
    ELSE IF raised THEN Answer(500, TRUE)
    ELSE Answer(200, TRUE)

\* _handle_schedule_scrape, ..., _handle_schedule_crawl
handle_schedule(body, plug, raised) ==
    IF ~plug.pulse_client THEN Answer(503, FALSE)
    ELSE IF body # "{url}" THEN Answer(400, FALSE)
    ELSE IF raised THEN Answer(500, FALSE)
    ELSE Answer(200, FALSE)

\* _handle_list_jobs
handle_list_jobs(plug, raised) ==
    IF ~plug.pulse_client THEN Answer(503, FALSE)
    ELSE IF raised THEN Answer(500, FALSE)
    ELSE Answer(200, FALSE)

\* HandleHTTP
handle_http(method, path, body, plug, raised) ==
    IF body = "malformed" THEN Answer(400, FALSE)
    ELSE IF method = "GET"
         THEN IF path = "/jobs" THEN handle_list_jobs(plug, raised) ELSE Answer(404, FALSE)
    ELSE IF method # "POST" THEN Answer(405, FALSE)
    ELSE IF path \in HarvestPaths THEN handle_harvest(path, body, plug, raised)
    ELSE IF path \in SchedulePaths THEN handle_schedule(body, plug, raised)
    ELSE Answer(404, FALSE)

PluginUnchanged == UNCHANGED <<wfvars, ratevars, fetchvars, attvars, extvars>>

Initialize ==
    /\ \E ats_endpoint \in BOOLEAN, queue_endpoint \in BOOLEAN, config_ok \in BOOLEAN :
        plugin' = initialize(plugin, ats_endpoint, queue_endpoint, config_ok)
    /\ UNCHANGED <<http, health>>
    /\ PluginUnchanged

Shutdown ==
    /\ plugin' = shutdown(plugin)
    /\ UNCHANGED <<http, health>>
    /\ PluginUnchanged

HandleHTTP ==
    /\ \E method \in Methods, path \in Paths, body \in Bodies, raised \in BOOLEAN :
        LET a == handle_http(method, path, body, plugin, raised) IN
        http' = [method |-> method, path |-> path, body |-> body, last |-> plugin.last,
                 status |-> a.status, called |-> a.called]
    /\ health' = NoHealth
    /\ UNCHANGED plugin
    /\ PluginUnchanged

Health ==
    /\ LET h == health_of(plugin) IN
       health' = [asked |-> TRUE, completed |-> plugin.completed, healthy |-> h.healthy,
                  ats_store |-> h.ats_store, pulse_queue |-> h.pulse_queue]
    /\ http' = NoExchange
    /\ UNCHANGED plugin
    /\ PluginUnchanged

NextPlugin == Initialize \/ Shutdown \/ HandleHTTP \/ Health

SpecPlugin == InitPlugin /\ [][NextPlugin]_vars

-----------------------------------------------------------------------------
(* SpecSitemap: the <url> loop of scrape_sitemap and float() on the text of *)
(* <priority>.  A text is a sequence of characters; a number is an integer  *)
(* count of units of 10^-MaxText, so that every decimal text of the bound   *)
(* is represented exactly.                                                  *)

MaxText == 3        \* characters of a <priority> text
MaxEntries == 2     \* <url> elements of a document

Digits == {"0", "1", "5", "9"}
Chars == Digits \cup {".", "-", " ", "x"}
DigitVal == ("0" :> 0) @@ ("1" :> 1) @@ ("5" :> 5) @@ ("9" :> 9)
Unit == 10 ^ MaxText
\* 0.5
DEFAULT_PRIORITY == Unit \div 2

Texts(n) == UNION {[1..k -> Chars] : k \in 0..n}

\* str.strip() as float() applies it
RECURSIVE lstrip(_)
lstrip(t) == IF t # <<>> /\ Head(t) = " " THEN lstrip(Tail(t)) ELSE t
RECURSIVE rstrip(_)
rstrip(t) == IF t # <<>> /\ t[Len(t)] = " " THEN rstrip(SubSeq(t, 1, Len(t) - 1)) ELSE t
strip(t) == rstrip(lstrip(t))

\* The scan of float() over an unsigned decimal: digits, at most one point,
\* at least one digit.  acc counts units; weight is the unit value of the
\* next digit after the point, 0 before the point.
RECURSIVE scan(_, _, _, _)
scan(t, acc, weight, ndigits) ==
    IF t = <<>> THEN [ok |-> ndigits > 0, value |-> acc]
    ELSE IF Head(t) = "."
         THEN IF weight # 0 THEN [ok |-> FALSE, value |-> 0]
              ELSE scan(Tail(t), acc * Unit, Unit \div 10, ndigits)
    ELSE IF Head(t) \in Digits
         THEN IF weight = 0
              THEN scan(Tail(t), acc * 10 + DigitVal[Head(t)], 0, ndigits + 1)
              ELSE scan(Tail(t), acc + DigitVal[Head(t)] * weight, weight \div 10, ndigits + 1)
    ELSE [ok |-> FALSE, value |-> 0]

\* the value of a text without point is in whole numbers until scaled
to_units(t, r) ==
    IF \E i \in 1..Len(t) : t[i] = "." THEN r ELSE [r EXCEPT !.value = r.value * Unit]

\* float(text): ok is FALSE where float raises ValueError
float(text) ==
    LET t == strip(text)
        neg == t # <<>> /\ Head(t) = "-"
        body == IF neg THEN Tail(t) ELSE t
        r == to_units(body, scan(body, 0, 0, 0))
    IN IF ~r.ok THEN r ELSE [r EXCEPT !.value = IF neg THEN 0 - r.value ELSE r.value]

\* Mutant: a text that is not a number yields 0.
priority_of_zero(priority_str) ==
    IF priority_str = <<>> THEN DEFAULT_PRIORITY
    ELSE LET r == float(priority_str) IN IF r.ok THEN r.value ELSE 0

\* `try: priority = float(priority_str) if priority_str else 0.5`
\* `except ValueError: priority = 0.5`
priority_of(priority_str) ==
    IF priority_str = <<>> THEN DEFAULT_PRIORITY
    ELSE LET r == float(priority_str) IN IF r.ok THEN r.value ELSE DEFAULT_PRIORITY

\* findtext(name, ""): the text of the child, "" if there is no such child
findtext(el, name) == IF el.has[name] THEN el.text[name] ELSE <<>>

\* the loop over the <url> elements
RECURSIVE parse_urls(_)
parse_urls(els) ==
    IF els = <<>> THEN <<>>
    ELSE LET url_el == Head(els)
             loc == findtext(url_el, "loc")
         IN (IF loc = <<>> THEN <<>>
             ELSE <<[loc |-> loc, priority |-> priority_of(findtext(url_el, "priority"))]>>)
            \o parse_urls(Tail(els))

\* a <url> element: which of <loc>, <priority> it has, and their texts
UrlElement(has_loc, loc, has_priority, priority) ==
    [has |-> [loc |-> has_loc, priority |-> has_priority],
     text |-> [loc |-> loc, priority |-> priority]]
\* <loc> absent, empty, or with a text; <priority> absent or with any text
LocChildren == {<<FALSE, <<>>>>, <<TRUE, <<>>>>, <<TRUE, <<"a">>>>}
UrlElements ==
    {UrlElement(l[1], l[2], FALSE, <<>>) : l \in LocChildren}
        \cup {UrlElement(l[1], l[2], TRUE, t) : l \in LocChildren, t \in Texts(MaxText)}
\* the elements that precede the last one of a longer document
LeadElements ==
    {UrlElement(TRUE, <<"a">>, TRUE, <<"0", ".", "9">>),
     UrlElement(FALSE, <<>>, TRUE, <<"1">>),
     UrlElement(TRUE, <<"b">>, TRUE, <<"x">>)}
\* the last element of a longer document: one of those, or one without
\* <priority>, or one whose priority is above 1
LastElements ==
    LeadElements \cup {UrlElement(TRUE, <<"a">>, FALSE, <<>>),
                       UrlElement(TRUE, <<"a">>, TRUE, <<"9">>)}
\* one <url> with any text, or several with those texts
Documents ==
    {<<el>> : el \in UrlElements}
        \cup UNION {{lead \o <<el>> : lead \in [1..k -> LeadElements], el \in LastElements} :
                      k \in 1..(MaxEntries - 1)}

InitSitemap ==
    /\ WorkflowsIdle /\ rate_limiter = FALSE /\ RateIdle /\ FetchIdle /\ AttestIdle
    /\ PluginIdle /\ ParseIdle /\ RobotsIdle /\ RaceIdle /\ AtomIdle /\ StoreIdle

\* scrape_sitemap from the parsed root on, for the one document the engine
\* is given: urls = the entries of the <url>s
ParseSitemap ==
    /\ document = <<>>
    /\ \E doc \in Documents :
        /\ document' = doc
        /\ parsed_urls' = parse_urls(doc)
    /\ UNCHANGED <<wfvars, ratevars, fetchvars, attvars, plugvars, robotvars, racevars,
                   atomvars, storevars>>

NextSitemap == ParseSitemap

SpecSitemap == InitSitemap /\ [][NextSitemap]_vars

-----------------------------------------------------------------------------
(* SpecRobots, SpecRobotsSeq: RobotsChecker.can_fetch step by step.  The    *)
(* engine's workflows run on the threads of the server's pool (SpecRobots); *)
(* SpecRobotsSeq is one thread making its calls one after the other.        *)

RobotCalls == 2     \* can_fetch calls of each thread in SpecRobots
SeqRobotCalls == 3  \* can_fetch calls of the single thread in SpecRobotsSeq

RobotUrls == {HttpUrl("example.com", "/"), HttpUrl("example.com", "/a"),
              HttpUrl("other.org", "/z")}
\* what session.get(robots_url) can do: 200 with or without a rule against
\* us, another status, or a requests.RequestException
RobotsResponses == {"200_allow", "200_disallow", "404", "500", "RequestException"}

\* Mutant: a response other than 200 closes the origin.
robots_parser_closed(reply) ==
    IF reply = "200_allow" THEN "allow_all" ELSE "disallow_all"

\* the parser built from the response: parser.parse(response.text.splitlines())
\* for status 200, parser.parse([]) otherwise
robots_parser(reply) ==
    IF reply = "200_allow" THEN "allow_all"
    ELSE IF reply = "200_disallow" THEN "disallow_all"
    ELSE "unavailable"

NoRobotsLocal(quota) ==
    [url |-> HttpUrl("", ""), parser |-> "none", returned |-> "none", calls |-> 0,
     quota |-> quota]

InitRobotsOf(threads, quota) ==
    /\ WorkflowsIdle /\ rate_limiter = FALSE /\ RateIdle /\ FetchIdle /\ AttestIdle
    /\ PluginIdle /\ ParseIdle /\ RaceIdle /\ AtomIdle /\ StoreIdle
    /\ rpc = [t \in threads |-> "idle"]
    /\ rlocal = [t \in threads |-> NoRobotsLocal(quota)]
    /\ robots_gets = <<>>
InitRobots == InitRobotsOf(Threads, RobotCalls)
InitRobotsSeq == InitRobotsOf({1}, SeqRobotCalls)

RobotsUnchanged ==
    UNCHANGED <<allow_private_ips, respect_robots, rate_limiter, pc, call, trace, result,
                visited, to_visit, ratevars, fetchvars, attvars, plugvars, parsevars,
                racevars, atomvars, storevars>>

\* can_fetch(url) is entered: robots_url is computed
EnterCanFetch(t) ==
    /\ rpc[t] \in {"idle", "returned"} /\ rlocal[t].calls < rlocal[t].quota
    /\ \E url \in RobotUrls :
        rlocal' = [rlocal EXCEPT ![t] = [@ EXCEPT !.url = url, !.parser = "none",
                                                  !.returned = "none"]]
    /\ rpc' = [rpc EXCEPT ![t] = "test"]
    /\ UNCHANGED <<parsers, robots_gets>>
    /\ RobotsUnchanged

\* `if robots_url not in self.parsers:`
TestCached(t) ==
    /\ rpc[t] = "test"
    /\ rpc' = [rpc EXCEPT ![t] = IF Origin(rlocal[t].url) \notin DOMAIN parsers
                                 THEN "get" ELSE "read"]
    /\ UNCHANGED <<parsers, rlocal, robots_gets>>
    /\ RobotsUnchanged

\* `response = self.session.get(robots_url, ...)` and the parse of its answer
GetRobots(t) ==
    /\ rpc[t] = "get"
    /\ \E reply \in RobotsResponses :
        /\ robots_gets' = Append(robots_gets,
                                 [origin |-> Origin(rlocal[t].url), response |-> reply])
        /\ rlocal' = [rlocal EXCEPT ![t].parser = robots_parser(reply)]
    /\ rpc' = [rpc EXCEPT ![t] = "store"]
    /\ UNCHANGED parsers
    /\ RobotsUnchanged

\* `self.parsers[robots_url] = parser`
StoreParser(t) ==
    /\ rpc[t] = "store"
    /\ parsers' = [o \in DOMAIN parsers \cup {Origin(rlocal[t].url)} |->
                      IF o = Origin(rlocal[t].url) THEN rlocal[t].parser ELSE parsers[o]]
    /\ rpc' = [rpc EXCEPT ![t] = "read"]
    /\ UNCHANGED <<rlocal, robots_gets>>
    /\ RobotsUnchanged

\* `return self.parsers[robots_url].can_fetch(self.user_agent, url)`
ReturnCanFetch(t) ==
    /\ rpc[t] = "read"
    /\ rlocal' = [rlocal EXCEPT ![t] =
                    [@ EXCEPT !.returned = IF can_fetch(parsers[Origin(rlocal[t].url)],
                                                        rlocal[t].url)
                                           THEN "allowed" ELSE "denied",
                              !.calls = @ + 1]]
    /\ rpc' = [rpc EXCEPT ![t] = "returned"]
    /\ UNCHANGED <<parsers, robots_gets>>
    /\ RobotsUnchanged

NextRobots ==
    \/ \E t \in DOMAIN rpc : EnterCanFetch(t)
    \/ \E t \in DOMAIN rpc : TestCached(t)
    \/ \E t \in DOMAIN rpc : GetRobots(t)
    \/ \E t \in DOMAIN rpc : StoreParser(t)
    \/ \E t \in DOMAIN rpc : ReturnCanFetch(t)

SpecRobots == InitRobots /\ [][NextRobots]_vars
SpecRobotsSeq == InitRobotsSeq /\ [][NextRobots]_vars

-----------------------------------------------------------------------------
(* SpecRace: the harvesting handlers of HandleHTTP step by step, on the     *)
(* threads of the server's pool, with Initialize and Shutdown arriving on   *)
(* other threads of it.                                                     *)

MaxRequests == 2    \* requests each handler thread serves in SpecRace

NoRequest(quota) == [path |-> "", status |-> 0, cause |-> "", served |-> 0, quota |-> quota]

InitRace ==
    /\ WorkflowsIdle /\ rate_limiter = FALSE /\ RateIdle /\ FetchIdle /\ AttestIdle
    /\ ParseIdle /\ RobotsIdle /\ AtomIdle /\ StoreIdle
    /\ plugin = [scraper |-> FALSE, scraper_ats |-> FALSE, ats_client |-> FALSE,
                 pulse_client |-> FALSE, last |-> "none", completed |-> "none", open |-> {},
                 supplied |-> {}]
    /\ http = NoExchange /\ health = NoHealth
    /\ hpc = [t \in Threads |-> "idle"]
    /\ hlocal = [t \in Threads |-> NoRequest(MaxRequests)]

RaceUnchanged ==
    UNCHANGED <<wfvars, ratevars, fetchvars, attvars, http, health, parsevars, robotvars,
                atomvars, storevars>>

\* HandleHTTP is entered with POST, a harvesting path and a body with url:
\* the body is decoded, the route found, url = body.get("url") is non-empty
EnterHandler(t) ==
    /\ hpc[t] \in {"idle", "done"} /\ hlocal[t].served < hlocal[t].quota
    /\ \E path \in HarvestPaths :
        hlocal' = [hlocal EXCEPT ![t] = [@ EXCEPT !.path = path, !.status = 0, !.cause = ""]]
    /\ hpc' = [hpc EXCEPT ![t] = "check"]
    /\ UNCHANGED plugin
    /\ RaceUnchanged

Respond(t, status, cause) ==
    /\ hlocal' = [hlocal EXCEPT ![t] = [@ EXCEPT !.status = status, !.cause = cause,
                                                 !.served = @ + 1]]
    /\ hpc' = [hpc EXCEPT ![t] = "done"]

\* `if not self.scraper: return self._error_response(503, ...)`
CheckScraper(t) ==
    /\ hpc[t] = "check"
    /\ IF ~plugin.scraper
       THEN Respond(t, 503, "not_initialized")
       ELSE hpc' = [hpc EXCEPT ![t] = "use"] /\ UNCHANGED hlocal
    /\ UNCHANGED plugin
    /\ RaceUnchanged

\* `self.scraper.scrape(...)`: self.scraper is read again at the call
scraper_at_use(plug) == plug.scraper

\* the call into the scraper and the response: an AttributeError on None and
\* an exception of the workflow both reach `except Exception` (500)
UseScraper(t) ==
    /\ hpc[t] = "use"
    /\ IF ~scraper_at_use(plugin)
       THEN Respond(t, 500, "scraper_cleared")
       ELSE \E raised \in BOOLEAN :
              IF raised THEN Respond(t, 500, "workflow") ELSE Respond(t, 200, "")
    /\ UNCHANGED plugin
    /\ RaceUnchanged

\* Initialize and Shutdown, each in one step
LifecycleCall ==
    /\ \/ \E ats_endpoint \in BOOLEAN, queue_endpoint \in BOOLEAN, config_ok \in BOOLEAN :
            plugin' = initialize(plugin, ats_endpoint, queue_endpoint, config_ok)
       \/ plugin' = shutdown(plugin)
    /\ UNCHANGED racevars
    /\ RaceUnchanged

NextRace ==
    \/ \E t \in DOMAIN hpc : EnterHandler(t)
    \/ \E t \in DOMAIN hpc : CheckScraper(t)
    \/ \E t \in DOMAIN hpc : UseScraper(t)
    \/ LifecycleCall

SpecRace == InitRace /\ [][NextRace]_vars

-----------------------------------------------------------------------------
(* SpecAtom: _parse_atom on one parsed feed.  An element is its tag, whether *)
(* the tag is in the Atom namespace, its text and its child elements; the    *)
(* feed is the sequence of the root's children.                              *)

MaxAtomEntries == 2

Element(tag, atom_ns, text, kids) ==
    [tag |-> tag, atom_ns |-> atom_ns, text |-> text, kids |-> kids]

\* None, as find returns it
NoElement == Element("None", FALSE, "", <<>>)

\* el.find(name): the first child with that tag; "atom:name" with the ns map
\* matches the tag in the Atom namespace, a bare name the tag in no namespace
RECURSIVE find(_, _, _)
find(kids, tag, atom_ns) ==
    IF kids = <<>> THEN NoElement
    ELSE IF Head(kids).tag = tag /\ Head(kids).atom_ns = atom_ns THEN Head(kids)
    ELSE find(Tail(kids), tag, atom_ns)

\* el.findall(name): all such children, in document order
findall(kids, tag, atom_ns) ==
    SelectSeq(kids, LAMBDA k : k.tag = tag /\ k.atom_ns = atom_ns)

\* bool(el) of an lxml element: whether it has children; None is false
truth(el) == el # NoElement /\ el.kids # <<>>

\* `a or b` on two find results
or_else(a, b) == IF truth(a) THEN a ELSE b

\* `el.find("atom:x", ns) or el.find("x")`
find_either(kids, tag) == or_else(find(kids, tag, TRUE), find(kids, tag, FALSE))

\* `el.find("atom:author/atom:name", ns) or el.find("author/name")`
find_author_name(kids) ==
    or_else(find(find(kids, "author", TRUE).kids, "name", TRUE),
            find(find(kids, "author", FALSE).kids, "name", FALSE))

\* `x.text if x is not None else ""`
text_of(el) == IF el # NoElement THEN el.text ELSE ""

\* `s1 or s2` on two strings
str_or(s1, s2) == IF s1 # "" THEN s1 ELSE s2

\* `root.findall("atom:entry", ns) or root.findall("entry")`: lists
entries_of(kids) ==
    LET l == findall(kids, "entry", TRUE) IN
    IF l # <<>> THEN l ELSE findall(kids, "entry", FALSE)

\* the FeedItem of one entry (title, published, author, guid)
feed_item(entry) ==
    [title     |-> text_of(find_either(entry.kids, "title")),
     published |-> str_or(text_of(find_either(entry.kids, "published")),
                          text_of(find_either(entry.kids, "updated"))),
     author    |-> text_of(find_author_name(entry.kids)),
     guid      |-> text_of(find_either(entry.kids, "id"))]

\* WebScraper._parse_atom
parse_atom(kids) ==
    [title     |-> text_of(find_either(kids, "title")),
     items     |-> [i \in 1..Len(entries_of(kids)) |-> feed_item(entries_of(kids)[i])],
     feed_type |-> "atom"]

(* The feeds given to the parser: every element in the Atom namespace or    *)
(* none; a title is absent, a leaf, or carries markup (type="xhtml").       *)
Leaf(tag, atom_ns, text) == Element(tag, atom_ns, text, <<>>)
Optional(el) == {<<>>, <<el>>}
TitleChoices(atom_ns, text) ==
    {<<>>, <<Leaf("title", atom_ns, text)>>,
     <<Element("title", atom_ns, text, <<Leaf("div", FALSE, "")>>)>>}
AtomEntries(atom_ns) ==
    {Element("entry", atom_ns, "", t \o i \o p \o u \o a) :
        t \in TitleChoices(atom_ns, "entry title"),
        i \in Optional(Leaf("id", atom_ns, "urn:1")),
        p \in Optional(Leaf("published", atom_ns, "2024-01-01")),
        u \in Optional(Leaf("updated", atom_ns, "2024-02-02")),
        a \in Optional(Element("author", atom_ns, "",
                               <<Leaf("name", atom_ns, "Ann")>>))}
\* the entries of a feed with several: all elements as leaves, title with
\* markup and <updated> alone, or an entry with nothing in it
FurtherEntries(atom_ns) ==
    {Element("entry", atom_ns, "",
             <<Leaf("title", atom_ns, "entry title"), Leaf("id", atom_ns, "urn:1"),
               Leaf("published", atom_ns, "2024-01-01"),
               Leaf("updated", atom_ns, "2024-02-02"),
               Element("author", atom_ns, "", <<Leaf("name", atom_ns, "Ann")>>)>>),
     Element("entry", atom_ns, "",
             <<Element("title", atom_ns, "entry title", <<Leaf("div", FALSE, "")>>),
               Leaf("updated", atom_ns, "2024-02-02")>>),
     Element("entry", atom_ns, "", <<>>)}
\* no entry, one entry of any shape, or several of those shapes
EntryLists(atom_ns) ==
    {<<>>} \cup {<<e>> : e \in AtomEntries(atom_ns)}
           \cup UNION {[1..k -> FurtherEntries(atom_ns)] : k \in 2..MaxAtomEntries}
AtomFeeds ==
    UNION {{t \o es : t \in TitleChoices(atom_ns, "feed title"), es \in EntryLists(atom_ns)} :
           atom_ns \in BOOLEAN}

InitAtom ==
    /\ WorkflowsIdle /\ rate_limiter = FALSE /\ RateIdle /\ FetchIdle /\ AttestIdle
    /\ PluginIdle /\ ParseIdle /\ RobotsIdle /\ RaceIdle /\ AtomIdle /\ StoreIdle

\* _parse_atom on the root of the one feed the engine is given
ParseAtom ==
    /\ feed_result = <<>>
    /\ \E kids \in AtomFeeds :
        /\ feed_root' = kids
        /\ feed_result' = <<parse_atom(kids)>>
    /\ UNCHANGED <<wfvars, ratevars, fetchvars, attvars, plugvars, parsevars, robotvars,
                   racevars, storevars>>

NextAtom == ParseAtom

SpecAtom == InitAtom /\ [][NextAtom]_vars

-----------------------------------------------------------------------------
(* SpecRecrawl: /crawl requests one after the other on one engine, against  *)
(* a sink that keeps what it accepted, may refuse a command and may fail to *)
(* answer a query.                                                          *)

MaxRuns == 2        \* /crawl requests in one behaviour
MaxRecrawlPages == 2

RecrawlStarts == {HttpUrl("example.com", "/"), HttpUrl("example.com", "/a")}
\* what the crawl's own fetch of a page can answer
RecrawlResponses ==
    {[status |-> "error", links |-> <<>>], [status |-> "ok", links |-> <<>>],
     [status |-> "ok", links |-> <<HttpUrl("example.com", "/a")>>],
     [status |-> "ok", links |-> <<HttpUrl("example.com", "/"), HttpUrl("other.org", "/z")>>]}
\* GetAttestations answers, or it raises / reports success = false
QueryOutcomes == {"ok", "error"}

\* the attestation the sink creates from a command it accepts
Attestation(cmd) ==
    [subject |-> cmd.subjects[1], predicate |-> cmd.predicates[1],
     context |-> cmd.contexts[1]]

\* Mutant: a query that fails counts as "attested".
query_has_title_or_failed(url, st, outcome) ==
    outcome # "ok" \/ \E a \in st : a.subject = url /\ a.predicate = "has_title"

\* Mutant: the check never finds anything.
query_has_title_never(url, st, outcome) == FALSE

\* _was_previously_crawled(url): a has_title attestation with subject url is
\* in the sink; `except Exception: return False` when the query fails
query_has_title(url, st, outcome) ==
    outcome = "ok" /\ \E a \in st : a.subject = url /\ a.predicate = "has_title"

\* the check as the run logs it
check_event(url, st, outcome) ==
    <<Event(IF outcome # "ok" THEN "check_failed"
            ELSE IF query_has_title(url, st, outcome) THEN "attested"
            ELSE "not_attested", url)>>

InitRecrawl ==
    /\ WorkflowsIdle /\ rate_limiter = TRUE /\ RateIdle /\ FetchIdle /\ AttestIdle
    /\ PluginIdle /\ ExtIdle

RecrawlUnchanged ==
    UNCHANGED <<allow_private_ips, respect_robots, rate_limiter, ratevars, fetchvars,
                plugvars, parsevars, robotvars, racevars, atomvars>>

\* _handle_crawl: crawl_and_attest(url, actor, max_pages, same_domain_only)
\* with skip_previously_crawled left at its default, up to the first step of
\* the generator: the check of start_url ahead of the loop
StartCrawl ==
    /\ pc = "idle" /\ Cardinality(runs) < MaxRuns
    /\ \E start_url \in RecrawlStarts, max_pages \in 0..MaxRecrawlPages,
          outcome \in QueryOutcomes :
        /\ call' = Call("crawl_and_attest", start_url, max_pages, TRUE, TRUE)
        /\ trace' = check_event(start_url, store, outcome)
        /\ pc' = IF should_skip(TRUE, query_has_title(start_url, store, outcome))
                 THEN "returned" ELSE "crawl"
        /\ to_visit' = <<start_url>>
    /\ result' = <<>> /\ visited' = {} /\ sink' = <<>> /\ actor' = ""
    /\ UNCHANGED <<parsers, runs, store>>
    /\ RecrawlUnchanged

\* one iteration of the loop of crawl, up to the yield and the queueing of
\* the page's links
RecrawlIter ==
    /\ pc = "crawl" /\ call.kind = "crawl_and_attest" /\ CrawlLoopCond
    /\ \E outcome \in QueryOutcomes, robots_txt \in Policies, resp \in RecrawlResponses :
      \E url \in {Head(to_visit)} :
      \E s \in {scrape(url, parsers, robots_txt, resp)} :
        IF url \in visited
        THEN /\ to_visit' = Tail(to_visit)
             /\ UNCHANGED <<visited, trace, result, parsers, pc>>
        ELSE IF should_skip(call.skip, query_has_title(url, store, outcome))
        THEN /\ to_visit' = Tail(to_visit)
             /\ visited' = mark_skipped(visited, url)
             /\ trace' = trace \o check_event(url, store, outcome)
             /\ UNCHANGED <<result, parsers, pc>>
        ELSE /\ visited' = visited \cup {url}
             /\ trace' = trace \o check_event(url, store, outcome) \o s.events
             /\ parsers' = s.parsers
             /\ result' = Append(result, s.result)
             /\ to_visit' = IF s.result.error # "none"
                            THEN Tail(to_visit)
                            ELSE enqueue_links(s.result.links, Tail(to_visit),
                                               visited \cup {url}, call.flag)
             /\ pc' = after_yield(call.kind, s.result.error)
    /\ UNCHANGED <<call, sink, actor, runs, store>>
    /\ RecrawlUnchanged

\* The body of the for loop of crawl_and_attest for the page just yielded.
\* scrape_and_attest passes its commands to generate_and_create one by one;
\* the sink accepts the first `accepted` of them and, if that is not all,
\* refuses the next: the RuntimeError leaves crawl_and_attest.
RecrawlAttest ==
    /\ pc = "attest" /\ call.kind = "crawl_and_attest"
    /\ IF result[Len(result)].error # "none"
       THEN /\ pc' = "crawl"
            /\ UNCHANGED <<trace, parsers, sink, store>>
       ELSE \E robots_txt \in Policies, resp \in RefetchResponses :
            \E r \in {scrape_and_attest(result[Len(result)].url, actor, ~call.flag, TRUE,
                                        parsers, robots_txt, resp)} :
            \E accepted \in 0..Len(r.commands) :
              /\ trace' = trace \o r.events
              /\ parsers' = r.parsers
              /\ store' = store \cup {Attestation(r.commands[i]) : i \in 1..accepted}
              /\ sink' = sink \o SubSeq(r.commands, 1, Min(accepted + 1, Len(r.commands)))
              /\ pc' = IF accepted < Len(r.commands) THEN "raised" ELSE "crawl"
    /\ UNCHANGED <<call, result, visited, to_visit, actor, runs>>
    /\ RecrawlUnchanged

\* the loop ends: the generator is exhausted, crawl_and_attest returns
RecrawlReturn ==
    /\ pc = "crawl" /\ call.kind = "crawl_and_attest" /\ ~CrawlLoopCond
    /\ pc' = "returned"
    /\ UNCHANGED <<parsers, call, trace, result, visited, to_visit, sink, actor, runs, store>>
    /\ RecrawlUnchanged

\* what a run that has ended leaves behind: the attestations the sink
\* accepted from it and, if the sink refused a command, the page concerned
RunSummary ==
    [no |-> Cardinality(runs) + 1,
     start_url |-> call.url,
     accepted |-> {Attestation(sink[i]) :
                     i \in 1..(IF pc = "raised" THEN Len(sink) - 1 ELSE Len(sink))},
     refused |-> IF pc = "raised" THEN {Attestation(sink[Len(sink)])} ELSE {}]

\* The handler has answered (200, or 500 after the RuntimeError) and the next
\* /crawl reaches the same engine and the same sink.
NextCrawlRequest ==
    /\ pc \in {"returned", "raised"} /\ call.kind = "crawl_and_attest"
    /\ Cardinality(runs) + 1 < MaxRuns
    /\ runs' = runs \cup {RunSummary}
    /\ pc' = "idle" /\ call' = NoCall
    /\ trace' = <<>> /\ result' = <<>> /\ sink' = <<>>
    /\ visited' = {} /\ to_visit' = <<>>
    /\ UNCHANGED <<parsers, actor, store>>
    /\ RecrawlUnchanged

NextRecrawl ==
    \/ StartCrawl
    \/ RecrawlIter
    \/ RecrawlAttest
    \/ RecrawlReturn
    \/ NextCrawlRequest

SpecRecrawl == InitRecrawl /\ [][NextRecrawl]_vars

-----------------------------------------------------------------------------
(* Properties of the workflows (Spec) *)

NetworkOps == {"robots_get", "rate", "get"}
Returned(kind) == pc = "returned" /\ call.kind = kind
Count(ops) == Cardinality({i \in 1..Len(trace) : trace[i].op \in ops})

\* The guard admitted trace[i].url earlier in the same pass of the pipeline:
\* an admit of that URL precedes i with only that URL's events in between.
AdmittedBefore(i) ==
    \E j \in 1..(i - 1) :
        /\ trace[j] = Event("admit", trace[i].url)
        /\ \A k \in (j + 1)..(i - 1) : trace[k].url = trace[i].url

\* C1: in every workflow, no robots.txt fetch, no rate-limiter update and no
\* HTTP GET happens for a URL unless _validate_url admitted that URL earlier
\* in the same call.
C1_GuardBeforeNetwork ==
    \A i \in 1..Len(trace) : trace[i].op \in NetworkOps => AdmittedBefore(i)

\* A crawl that fetched two pages, with a robots.txt fetch and a rate-limiter
\* update on the way.
C1_Witness ==
    /\ Returned("crawl")
    /\ Count({"get"}) >= 2 /\ Count({"robots_get"}) >= 1 /\ Count({"rate"}) >= 2

\* C2: for both values of allow_private_ips the guard refuses the three cloud
\* metadata hosts, and a scrape of such a URL returns a record with error set
\* without any network I/O.
C2_MetadataAlwaysRefused ==
    (Returned("scrape")
        /\ call.url.scheme \in {"http", "https"}
        /\ call.url.host \in {"169.254.169.254", "metadata.google.internal", "metadata.goog"})
    => /\ \A allow_private \in BOOLEAN : validate_url(call.url, allow_private) = "cloud_metadata"
       /\ result[1].error = "cloud_metadata"
       /\ result[1].status_code = 0
       /\ Count(NetworkOps) = 0

\* A scrape of a metadata host name on an engine that allows private IPs.
C2_Witness ==
    /\ Returned("scrape") /\ allow_private_ips
    /\ call.url = HttpUrl("metadata.goog", "/")
    /\ trace = <<Event("refuse", call.url)>>

GuardRefused == /\ Len(trace) = 1 /\ trace[1].op = "refuse"
                /\ result[1].error \notin {"none", "fetch_failed", "blocked_by_robots"}
GuardAdmitted == Len(trace) >= 1 /\ trace[1].op = "admit"

\* C3: with allow_private_ips = false the guard refuses every URL whose scheme
\* is not http/https, whose host is empty, whose host is localhost /
\* 127.0.0.1 / ::1 / 0.0.0.0, or whose host is an IP literal that is private,
\* loopback, link-local or reserved; and it admits a public IP literal.
C3_GuardRefusesPrivate ==
    (Returned("scrape") /\ ~allow_private_ips) =>
        LET h == call.url.host
            flagged == is_private(h) \/ is_loopback(h) \/ is_link_local(h) \/ is_reserved(h)
        IN /\ (\/ call.url.scheme \notin {"http", "https"}
               \/ h = ""
               \/ h \in {"localhost", "127.0.0.1", "::1", "0.0.0.0"}
               \/ (h \in IPLiterals /\ flagged)) => GuardRefused
           /\ (call.url.scheme \in {"http", "https"} /\ h \in IPLiterals /\ ~flagged)
                  => GuardAdmitted

\* C4: with respect_robots on, no HTTP GET is issued for a URL, in any
\* workflow, before the robots decision for its origin allowed it.
C4_RobotsBeforeGet ==
    respect_robots =>
        \A i \in 1..Len(trace) :
            trace[i].op = "get" =>
                \E j \in 1..(i - 1) : trace[j] = Event("robots_allow", trace[i].url)

\* C10: crawl yields at most max_pages records and no URL twice.
C10_CrawlBound ==
    call.kind = "crawl" =>
        /\ Len(result) <= call.limit
        /\ \A i, j \in 1..Len(result) : i # j => result[i].url # result[j].url

\* A crawl stopped by the page budget with URLs still queued.
C10_Witness ==
    /\ Returned("crawl")
    /\ call.limit = 2 /\ Len(result) = 2
    /\ to_visit # <<>>

-----------------------------------------------------------------------------
(* Properties of the rate limiter (SpecSeq, SpecPool) *)

MaxOf(a, b) == IF a >= b THEN a ELSE b

\* f2 is a later fetch of the same workflow thread to the same host as f1
Successive(f1, f2) == f1.thread = f2.thread /\ f1.domain = f2.domain /\ f1.n < f2.n

\* C5: between two fetches to one host at least max(1/rps, Crawl-delay of the
\* host's robots.txt) elapses.
C5_CrawlDelaySpacing ==
    min_interval > 0 =>
        \A f1, f2 \in fetches :
            Successive(f1, f2) =>
                f2.start - f1.gate >= MaxOf(min_interval, get_crawl_delay(f1.domain))

\* C6: with rps > 0, of two successive fetches of one workflow to one host the
\* second starts no sooner than 1/rps after the first passed the gate; the
\* first fetch to a host is not delayed; without a limiter (rps <= 0) nothing
\* is delayed and nothing recorded.
C6_RateBound ==
    /\ min_interval > 0 =>
          \A f1, f2 \in fetches : Successive(f1, f2) => f2.start - f1.gate >= min_interval
    /\ \A f \in fetches :
          (~\E g \in fetches : g.domain = f.domain /\ g.n < f.n) => ~f.slept
    /\ ~rate_limiter => /\ \A f \in fetches : ~f.slept /\ f.gate = -1
                        /\ last_request = <<>>

\* Two fetches to one host, the second of which had to sleep.
C6_Witness ==
    \E f1, f2 \in fetches : Successive(f1, f2) /\ f2.slept /\ min_interval = 2
                            /\ crawl_delay = 0
                            /\ f2.start = f1.gate + 2

\* C7: two workflows running concurrently on the worker pool that fetch from
\* one host start their fetches at least 1/rps apart.
C7_PoolSpacing ==
    min_interval > 0 =>
        \A f1, f2 \in fetches :
            (f1.thread # f2.thread /\ f1.domain = f2.domain) =>
                (f1.start - f2.start >= min_interval \/ f2.start - f1.start >= min_interval)

-----------------------------------------------------------------------------
(* Properties of the fetcher (SpecFetch) *)

\* C8: whatever Content-Length says, the bytes returned to a parser are at
\* most max_response_size long and are the whole body; for a body longer
\* than the cap nothing is returned.
C8_SizeCap ==
    /\ fpc = "returned" => delivered <= max_response_size /\ delivered = response.body
    /\ fpc # "returned" => delivered = -1
    /\ response.body > max_response_size => fpc # "returned"

\* A body above the cap behind an understated Content-Length is cut off by
\* the streaming check.
C8_Witness ==
    /\ fpc = "raised_exceeded" /\ delivered = -1
    /\ response.content_length \in 0..max_response_size
    /\ response.content_length < response.body

\* C9: a fetch never holds more than max_response_size body bytes read from
\* the stream.
C9_ReadBound == content <= max_response_size

\* the fetch is over otherwise than by a broken stream
FetchDecided == fpc \notin {"call", "headers", "reading", "raised_request"}
\* a 2xx response whose Content-Length and body are within the cap
WithinCap ==
    /\ response.status = 200
    /\ response.body <= max_response_size
    /\ response.content_length <= max_response_size

-----------------------------------------------------------------------------
(* Properties of the URL guard on names (Spec) *)

\* a scrape call is over, with a record or with an exception
Ended(kind) == pc \in {"returned", "raised"} /\ call.kind = kind

\* C26: for a host that is neither an IP literal nor on a blocklist, on an
\* engine that refuses private addresses, the guard resolves the name: it
\* refuses the URL if the address is private, loopback or link-local, and it
\* admits the URL if the resolution fails.
C26_ResolveThenDecide ==
    (Ended("scrape") /\ ~allow_private_ips /\ call.url.scheme = "http"
        /\ call.url.host \in HostNames \ (LOCALHOST_NAMES \cup BLOCKED_METADATA_HOSTS))
    => LET resolved == gethostbyname(call.url.host) IN
       IF resolved \in IPv4Literals
       THEN (is_private(resolved) \/ is_loopback(resolved) \/ is_link_local(resolved))
               => GuardRefused
       ELSE GuardAdmitted

-----------------------------------------------------------------------------
(* Properties of the crawler and of the projection (Spec, SpecAttest) *)

\* C11: within one crawl_and_attest run the page GET of any URL is issued at
\* most once.
C11_OneGetPerUrl ==
    call.kind = "crawl_and_attest" =>
        \A i, j \in 1..Len(trace) :
            (i # j /\ trace[i].op = "get" /\ trace[j].op = "get") => trace[i].url # trace[j].url

\* The links of the i-th yielded page that the crawl may follow
Followed(i) ==
    IF result[i].error # "none" THEN <<>>
    ELSE SelectSeq(result[i].links, LAMBDA l : ~(call.flag /\ l.is_external))

RECURSIVE AppendNew(_, _)
AppendNew(disc, links) ==
    IF links = <<>> THEN disc
    ELSE AppendNew(IF InSeq(Head(links).target_url, disc) THEN disc
                   ELSE Append(disc, Head(links).target_url),
                   Tail(links))

\* The URLs in the order of their discovery: start_url, then the links of
\* each yielded page in document order, first occurrence only.
RECURSIVE DiscoveryUpTo(_)
DiscoveryUpTo(n) ==
    IF n = 0 THEN <<call.url>> ELSE AppendNew(DiscoveryUpTo(n - 1), Followed(n))

Pos(u, q) == CHOOSE i \in 1..Len(q) : q[i] = u

\* The URLs within k followed links of start_url
RECURSIVE Reach(_)
Reach(k) ==
    IF k = 0 THEN {call.url}
    ELSE LET r == Reach(k - 1) IN
         r \cup UNION { {Followed(i)[n].target_url : n \in 1..Len(Followed(i))} :
                          i \in {m \in 1..Len(result) : result[m].url \in r} }

LinkDistance(u) == CHOOSE k \in 0..Len(result) : u \in Reach(k) /\ (k = 0 \/ u \notin Reach(k - 1))

Yielded(u) == \E i \in 1..Len(result) : result[i].url = u
Fetched(u) == \E i \in 1..Len(trace) : trace[i] = Event("get", u)

\* C13: with skip_previously_crawled, a URL that the sink reports as carrying
\* a has_title attestation is neither fetched nor yielded by crawl; in the
\* loop it is marked visited, and if it is start_url at the entry the crawl
\* returns at once with nothing yielded.
C13_SkipAttested ==
    (call.kind = "crawl" /\ call.skip) =>
        /\ \A i \in 1..Len(trace) :
              trace[i].op = "attested" =>
                  /\ ~Fetched(trace[i].url) /\ ~Yielded(trace[i].url)
                  /\ i > 1 => trace[i].url \in visited
        /\ (trace # <<>> /\ trace[1].op = "attested") =>
              pc = "returned" /\ result = <<>> /\ Len(trace) = 1 /\ visited = {}

\* The root links to /a, attested, and to another page, not attested: the
\* root and the other page are yielded, /a is not.
C13_Witness ==
    /\ Returned("crawl") /\ call.skip /\ call.url = HttpUrl("example.com", "/")
    /\ Len(result) = 2
    /\ result[1].url = call.url
    /\ Len(result[1].links) = 2
    /\ result[1].links[1].target_url = HttpUrl("example.com", "/a")
    /\ result[2].url = result[1].links[2].target_url
    /\ \E i \in 1..Len(trace) : trace[i] = Event("attested", HttpUrl("example.com", "/a"))
    /\ HttpUrl("example.com", "/a") \in visited

FailureEvents == {"refuse", "robots_deny"}

\* C14: a page that fails during a crawl (guard refusal, robots refusal,
\* failed or oversize fetch) does not end the crawl: the failure is the
\* error of that page's record, the record is yielded, nothing of it is
\* queued, and the crawl goes on with the queue as it was.
C14_FailureIsolated ==
    /\ [](call.kind = "crawl" =>
            /\ \A i \in 1..Len(trace) :
                  trace[i].op \in FailureEvents =>
                      \E k \in 1..Len(result) : /\ result[k].url = trace[i].url
                                                /\ result[k].error # "none"
            /\ \A k \in 1..Len(result) : result[k].error # "none" => result[k].links = <<>>
            /\ pc = "returned" => \/ to_visit = <<>>
                                  \/ Cardinality(visited) >= call.limit
                                  \/ trace = <<Event("attested", call.url)>>)
    /\ [][(call.kind = "crawl" /\ pc = "crawl" /\ Len(result') = Len(result) + 1
              /\ result'[Len(result')].error # "none")
          => /\ result'[Len(result')].url = Head(to_visit)
             /\ to_visit' = Tail(to_visit)
             /\ pc' = "crawl"]_vars

\* The second of three pages failed and the third was crawled after it.
C14_Witness ==
    /\ Returned("crawl") /\ Len(result) = 3
    /\ result[1].error = "none" /\ result[2].error = "fetch_failed" /\ result[3].error = "none"

-----------------------------------------------------------------------------
(* Properties of the projection (SpecAttest) *)

\* A scrape_and_attest call has returned
PageProjected == pc = "returned" /\ call.kind = "scrape_and_attest"

RECURSIVE with_alt(_)
with_alt(images) ==
    IF images = <<>> THEN <<>>
    ELSE (IF Head(images).alt # "" THEN <<Head(images)>> ELSE <<>>) \o with_alt(Tail(images))

\* the has_image commands of the sink, in the order they were sent
RECURSIVE has_image_contexts(_)
has_image_contexts(commands) ==
    IF commands = <<>> THEN <<>>
    ELSE (IF Head(commands).predicates = <<"has_image">>
          THEN Head(commands).contexts ELSE <<>>) \o has_image_contexts(Tail(commands))

\* C18: for a projected page the has_image commands are those of the first
\* up to 10 images among the images that have a non-empty alt, in document
\* order (an image without alt does not count toward the 10).
C18_FirstTenWithAlt ==
    (PageProjected /\ result[1].error = "none")
    => LET expected == Take(with_alt(result[2].images), IMAGE_LIMIT) IN
       has_image_contexts(sink) = [i \in 1..Len(expected) |-> expected[i].src]

\* C19: every command sent to the sink by a page, feed, sitemap or crawl
\* workflow has actors = [actor] when the request carried a non-empty actor
\* and actors = [] otherwise, and its attributes contain the source key.
C19_ActorsAndSource ==
    \A i \in 1..Len(sink) :
        /\ sink[i].actors = (IF actor # "" THEN <<actor>> ELSE <<>>)
        /\ "source" \in DOMAIN sink[i].attributes

\* a sitemap workflow with an actor has sent commands
C19_Witness ==
    /\ call.kind = "scrape_sitemap_and_attest" /\ actor # ""
    /\ Len(sink) >= 2
    /\ sink[1].actors = <<actor>>

\* the items that have a non-empty link, in item order
RECURSIVE with_link(_)
with_link(items) ==
    IF items = <<>> THEN <<>>
    ELSE (IF Head(items).link # "" THEN <<Head(items)>> ELSE <<>>) \o with_link(Tail(items))

\* A scrape_feed_and_attest call has returned a feed without error
FeedProjected ==
    pc = "returned" /\ call.kind = "scrape_feed_and_attest" /\ result[1].error = "none"

\* C20: for a feed without error the sink receives one has_title command
\* (context the feed title, attributes carrying feed_type) if the title is
\* non-empty, then one feed_contains command per item that has a link, in
\* item order, and nothing else.
C20_FeedProjection ==
    FeedProjected =>
        LET feed == result[2]
            linked == with_link(feed.items)
            n == IF feed.title # "" THEN 1 ELSE 0
        IN /\ Len(sink) = n + Len(linked)
           /\ feed.title # "" =>
                /\ sink[1].predicates = <<"has_title">>
                /\ sink[1].contexts = <<feed.title>>
                /\ "feed_type" \in DOMAIN sink[1].attributes
                /\ sink[1].attributes["feed_type"] = result[1].feed_type
           /\ \A i \in 1..Len(linked) :
                /\ sink[n + i].predicates = <<"feed_contains">>
                /\ sink[n + i].contexts = <<linked[i].link>>
                /\ sink[n + i].subjects = <<call.url>>

\* a titled feed of three items, the second without link
C20_Witness ==
    /\ FeedProjected
    /\ result[2].title # ""
    /\ Len(result[2].items) = 3 /\ result[2].items[2].link = ""
    /\ Len(sink) = 3

\* A scrape_sitemap_and_attest call has returned
SitemapsProjected == pc = "returned" /\ call.kind = "scrape_sitemap_and_attest"

Distinct(q) == \A i, j \in 1..Len(q) : q[i] = q[j] => i = j
Elems(q) == {q[i] : i \in 1..Len(q)}

\* the url entries of the records in order, each with the sitemap it is from
RECURSIVE url_entries(_)
url_entries(records) ==
    IF records = <<>> THEN <<>>
    ELSE [i \in 1..Len(Head(records).urls) |->
             [subject |-> Head(records).url, loc |-> Head(records).urls[i].loc]]
         \o url_entries(Tail(records))

\* the sink holds one sitemap_contains command per url entry of the records
OnePerEntry ==
    LET entries == url_entries(result) IN
    /\ Len(sink) = Len(entries)
    /\ \A i \in 1..Len(entries) :
        /\ sink[i].predicates = <<"sitemap_contains">>
        /\ sink[i].subjects = <<entries[i].subject>>
        /\ sink[i].contexts = <<entries[i].loc>>

\* the root was fetched and parsed and lists k distinct sitemaps, k+1 <= max_nested
RootIndex ==
    /\ SitemapsProjected /\ call.limit >= 1 /\ result # <<>>
    /\ result[1].error = "none"
    /\ Distinct(result[1].sitemaps)
    /\ Len(result[1].sitemaps) + 1 <= call.limit

\* root first, then the sitemaps it lists in listed order, and one command
\* per url entry
RootThenNested ==
    /\ Len(result) = Len(result[1].sitemaps) + 1
    /\ result[1].url = call.url
    /\ \A i \in 1..Len(result[1].sitemaps) : result[i + 1].url = result[1].sitemaps[i]
    /\ OnePerEntry

\* only the root is fetched
RootOnly ==
    /\ Len(result) = 1 /\ result[1].url = call.url
    /\ \A i \in 1..Len(trace) : trace[i].op = "get" => trace[i].url = call.url
    /\ OnePerEntry

\* C21 as stated: with follow_nested and a root index listing k distinct
\* sitemaps, k+1 <= max_nested, the call returns k+1 records (root, then the
\* listed ones in order) and sends one sitemap_contains per url entry of
\* every fetched sitemap; without follow_nested only the root is fetched.
C21_NestedFollow_AsStated ==
    RootIndex => IF call.flag THEN RootThenNested ELSE RootOnly

\* the listed sitemaps differ from the root and list no sitemap beyond the
\* root and the ones the root lists
NestedArePlain ==
    /\ call.url \notin Elems(result[1].sitemaps)
    /\ \A i \in 2..Len(result) :
        Elems(result[i].sitemaps) \subseteq Elems(result[1].sitemaps) \cup {call.url}

\* C21 (amended): the same, for a root index whose listed sitemaps differ
\* from the root and list no further sitemaps of their own.
C21_NestedFollow ==
    (RootIndex /\ NestedArePlain) => IF call.flag THEN RootThenNested ELSE RootOnly

\* the root lists two sitemaps, all three are fetched, commands are sent
C21_Witness ==
    /\ RootIndex /\ NestedArePlain /\ call.flag
    /\ Len(result[1].sitemaps) = 2
    /\ Len(result) = 3
    /\ Len(sink) >= 2

-----------------------------------------------------------------------------
(* Properties of the sitemap parser (SpecSitemap) *)

\* C22: every entry the sitemap parser produces has its priority within
\* [0, 1], whatever the text of <priority>.
C22_PriorityInRange ==
    \A i \in 1..Len(parsed_urls) :
        parsed_urls[i].priority >= 0 /\ parsed_urls[i].priority <= Unit

\* the text between the first and the last character that is not a space
Core(t) ==
    LET idx == {i \in 1..Len(t) : t[i] # " "} IN
    IF idx = {} THEN <<>>
    ELSE SubSeq(t, CHOOSE i \in idx : \A j \in idx : i <= j,
                   CHOOSE i \in idx : \A j \in idx : i >= j)
Unsigned(c) == IF c # <<>> /\ c[1] = "-" THEN Tail(c) ELSE c

\* a decimal numeral: digits and at most one point, at least one digit
IsDecimal(u) ==
    /\ \A i \in 1..Len(u) : u[i] \in Digits \cup {"."}
    /\ Cardinality({i \in 1..Len(u) : u[i] = "."}) <= 1
    /\ \E i \in 1..Len(u) : u[i] \in Digits

\* the number a decimal numeral denotes, in units: the digit at position i
\* weighs 10^(d-1-i) before the point at d and 10^-(i-d) after it
RECURSIVE Denotes(_, _, _)
Denotes(u, d, i) ==
    IF i > Len(u) THEN 0
    ELSE (IF i < d THEN DigitVal[u[i]] * (10 ^ (d - 1 - i)) * Unit
          ELSE IF i > d THEN DigitVal[u[i]] * (Unit \div (10 ^ (i - d)))
          ELSE 0) + Denotes(u, d, i + 1)
NumberOf(text) ==
    LET c == Core(text)
        u == Unsigned(c)
        points == {i \in 1..Len(u) : u[i] = "."}
        d == IF points = {} THEN Len(u) + 1 ELSE CHOOSE i \in points : TRUE
        v == Denotes(u, d, 1)
    IN IF c # u THEN 0 - v ELSE v

\* what C23 expects of a <url> element that has a <loc>
ExpectedPriority(el) ==
    IF ~el.has.priority \/ el.text.priority = <<>>
          \/ ~IsDecimal(Unsigned(Core(el.text.priority)))
    THEN Unit \div 2
    ELSE NumberOf(el.text.priority)

\* the positions of the elements that have a non-empty <loc>, in order
RECURSIVE WithLoc(_, _)
WithLoc(els, i) ==
    IF i > Len(els) THEN <<>>
    ELSE (IF els[i].has.loc /\ els[i].text.loc # <<>> THEN <<i>> ELSE <<>>)
         \o WithLoc(els, i + 1)

\* C23: the parser yields one entry per <url> element that has a <loc>, in
\* order; its priority is 0.5 if <priority> is absent, empty or not a number,
\* and otherwise exactly the number the text denotes.
C23_PriorityDefault ==
    document # <<>> =>
        LET kept == WithLoc(document, 1) IN
        /\ Len(parsed_urls) = Len(kept)
        /\ \A j \in 1..Len(kept) :
            /\ parsed_urls[j].loc = document[kept[j]].text.loc
            /\ parsed_urls[j].priority = ExpectedPriority(document[kept[j]])

\* an entry that keeps 0.9 and one whose priority text is not a number
C23_Witness ==
    /\ Len(document) = 2 /\ Len(parsed_urls) = 2
    /\ document[1].text.priority = <<"0", ".", "9">>
    /\ parsed_urls[1].priority = 9 * (Unit \div 10)
    /\ document[2].text.priority = <<"x">>
    /\ parsed_urls[2].priority = Unit \div 2

-----------------------------------------------------------------------------
(* Properties of the robots cache (SpecRobots, SpecRobotsSeq) *)

\* the GETs of /robots.txt issued for an origin, by position
GetsFor(o) == {i \in 1..Len(robots_gets) : robots_gets[i].origin = o}
RobotOrigins == {Origin(u) : u \in RobotUrls}

\* C24: robots.txt is fetched at most once per origin, also when several
\* threads ask about the origin at the same time.
C24_OneRobotsGetPerOrigin ==
    \A o \in RobotOrigins : Cardinality(GetsFor(o)) <= 1

\* the robots.txt GET of the origin did not answer 200
Unavailable(o) ==
    \E i \in GetsFor(o) : robots_gets[i].response \in {"404", "500", "RequestException"}

NothingSentFor(url) == \A i \in 1..Len(sink) : sink[i].subjects # <<url>>

\* C28: a call that ends with an error hands back the record of its url; a
\* page record with error has status_code 0; and no command has been sent to
\* the sink for a record with error, in the page, feed, sitemap and crawl
\* workflows alike.
C28_ErrorMeansNothingSent ==
    /\ (pc = "returned" /\ call.kind = "scrape_and_attest" /\ result[1].error # "none")
          => result[1].url = call.url /\ result[1].status_code = 0 /\ sink = <<>>
    /\ (pc = "returned" /\ call.kind = "scrape_feed_and_attest" /\ result[1].error # "none")
          => result[1].url = call.url /\ sink = <<>>
    /\ call.kind = "scrape_sitemap_and_attest"
          => \A i \in 1..Len(result) :
                result[i].error # "none" => NothingSentFor(result[i].url)
    /\ call.kind = "crawl_and_attest"
          => \A i \in 1..Len(result) :
                result[i].error # "none"
                    => result[i].status_code = 0 /\ NothingSentFor(result[i].url)

\* a crawl that attested one page and met one that failed
C28_Witness ==
    /\ pc = "returned" /\ call.kind = "crawl_and_attest"
    /\ Len(result) = 2
    /\ result[1].error = "none" /\ result[2].error # "none"
    /\ sink # <<>>

-----------------------------------------------------------------------------
(* Properties of the plugin (SpecPlugin) *)

\* The routing table: the method listed for each path
RoutedMethod(path) == IF path = "/jobs" THEN "GET" ELSE "POST"
RoutedPaths == HarvestPaths \cup SchedulePaths \cup {"/jobs"}

\* C15: a request for a path that is not in the routing table is answered
\* 404, and one for a path of the table with another method than the one
\* listed is answered 405 (the body being empty or well-formed JSON).
C15_UnknownPathWrongMethod ==
    (http.method # "" /\ http.body # "malformed") =>
        /\ http.path \notin RoutedPaths => http.status = 404
        /\ (http.path \in RoutedPaths /\ http.method # RoutedMethod(http.path))
              => http.status = 405

\* C16: a harvesting route called with a url before the first Initialize, or
\* after a Shutdown with no Initialize since, is answered 503 without any
\* call into the scraper.
C16_NotInitialized ==
    (http.method = "POST" /\ http.path \in HarvestPaths /\ http.body = "{url}"
        /\ http.last \in {"none", "Shutdown"})
    => http.status = 503 /\ ~http.called

\* POST /crawl with a url after Initialize and Shutdown
C16_Witness ==
    /\ http.method = "POST" /\ http.path = "/crawl" /\ http.body = "{url}"
    /\ http.last = "Shutdown" /\ plugin.last = "Shutdown"
    /\ http.status = 503

-----------------------------------------------------------------------------
(* Properties of the handlers under concurrency (SpecRace) *)

\* C30: a harvesting request that runs while Shutdown arrives ends with its
\* normal response or with 503, never with a 500 that comes from the scraper
\* reference having been cleared between the check and the use.
C30_NoClearedReference ==
    \A t \in DOMAIN hpc :
        hpc[t] = "done" =>
            /\ hlocal[t].status \in {200, 500, 503}
            /\ ~(hlocal[t].status = 500 /\ hlocal[t].cause = "scraper_cleared")

-----------------------------------------------------------------------------
(* Properties of the crawl frontier (Spec) *)

\* C31: with same_domain_only, every URL the crawl has queued, visited or
\* yielded has the host of start_url, whatever links the pages carry.
C31_SameDomainOnly ==
    (call.kind = "crawl" /\ call.flag) =>
        /\ \A i \in 1..Len(to_visit) : to_visit[i].host = call.url.host
        /\ \A u \in visited : u.host = call.url.host
        /\ \A i \in 1..Len(result) : result[i].url.host = call.url.host

\* A same-domain crawl that yielded two pages, the first of which carried a
\* link to another host.
C31_Witness ==
    /\ Returned("crawl") /\ call.flag
    /\ Len(result) = 2
    /\ \E i \in 1..Len(result[1].links) : result[1].links[i].is_external

-----------------------------------------------------------------------------
(* Properties of the sitemap walk (SpecSitemapWalk) *)

SitemapGets == {i \in 1..Len(trace) : trace[i].op = "get"}

\* no sitemap URL is fetched twice and at most max_nested are fetched
FetchedOnceWithinBudget ==
    /\ \A i, j \in SitemapGets : i # j => trace[i].url # trace[j].url
    /\ Cardinality(SitemapGets) <= call.limit

\* C32: scrape_sitemap_and_attest terminates, also when sitemap indexes list
\* themselves or each other; it fetches no sitemap URL twice and never more
\* than max_nested sitemaps, the root included.
C32_SitemapWalkTerminates ==
    /\ [](call.kind = "scrape_sitemap_and_attest" => FetchedOnceWithinBudget)
    /\ ((pc = "sitemaps") ~> (pc = "returned"))

\* A walk that has returned after a sitemap index listed itself and another
\* index, and that index listed the first one back.
C32_Witness ==
    /\ Returned("scrape_sitemap_and_attest")
    /\ Len(result) >= 2
    /\ result[1].url \in Elems(result[1].sitemaps)
    /\ result[2].url \in Elems(result[1].sitemaps)
    /\ result[1].url \in Elems(result[2].sitemaps)
    /\ Cardinality(SitemapGets) = 2

\* C35: during a crawl the queue holds no URL twice and no URL that is in
\* the visited set, so the URL taken from its head is never a visited one.
C35_FrontierDisjoint ==
    call.kind = "crawl" =>
        /\ Distinct(to_visit)
        /\ Elems(to_visit) \cap visited = {}
        /\ (to_visit # <<>> => Head(to_visit) \notin visited)

\* Two URLs are queued after a page that linked to itself and twice to the
\* same new page.
C35_Witness ==
    /\ call.kind = "crawl" /\ pc = "crawl"
    /\ Len(result) >= 1 /\ Len(to_visit) >= 1
    /\ \E i, j \in 1..Len(result[1].links) :
        /\ i # j /\ result[1].links[i].target_url = result[1].links[j].target_url
        /\ result[1].links[i].target_url # result[1].url
        /\ ~result[1].links[i].is_external
    /\ \E r \in 1..Len(result) : \E i \in 1..Len(result[r].links) :
        result[r].links[i].target_url \in visited

\* pages yielded plus URLs skipped as previously attested
YieldedPlusSkipped == Len(result) + Count({"attested"})

WithinPageBudget ==
    /\ YieldedPlusSkipped <= call.limit
    /\ (pc = "crawl" /\ YieldedPlusSkipped = call.limit) => ~CrawlLoopCond

\* C36 as stated: in a crawl, pages yielded plus URLs skipped as previously
\* attested never exceed max_pages, and the crawl stops when they reach it.
C36_SkipsConsumeBudget_AsStated ==
    call.kind = "crawl" => WithinPageBudget

\* C36 (amended): the same for max_pages >= 1; the check of start_url ahead
\* of the loop skips it whatever max_pages is.
C36_SkipsConsumeBudget ==
    (call.kind = "crawl" /\ call.limit >= 1) => WithinPageBudget

\* A crawl with a budget of two that yielded one page, skipped one URL and
\* returned with a URL still queued.
C36_Witness ==
    /\ Returned("crawl") /\ call.limit = 2
    /\ Len(result) = 1 /\ Count({"attested"}) = 1
    /\ to_visit # <<>>

-----------------------------------------------------------------------------
(* Properties of the order of the HTML pipeline (Spec) *)

RobotsOps == {"robots_get", "robots_allow", "robots_deny"}

\* in the trace of one scrape call every event with an op of `first` comes
\* before every event with an op of `then`
Precedes(first, then) ==
    \A i, j \in 1..Len(trace) :
        (trace[i].op \in first /\ trace[j].op \in then) => i < j

\* C33: in scrape the steps for the URL come in the order guard admission,
\* rate gate, robots authorization, HTTP fetch: the rate gate is passed
\* before the robots decision is consulted.
C33_RateBeforeRobots ==
    call.kind = "scrape" =>
        /\ Precedes({"admit"}, {"rate"} \cup RobotsOps \cup {"get"})
        /\ Precedes({"rate"}, RobotsOps)
        /\ Precedes(RobotsOps, {"get"})

-----------------------------------------------------------------------------
(* Properties of the Atom parser (SpecAtom) *)

\* the text of the first child of that name in the Atom namespace, "" if
\* there is none
AtomText(kids, tag) == text_of(find(kids, tag, TRUE))

InAtomNamespace(kids) == \A i \in 1..Len(kids) : kids[i].atom_ns

\* C34: for a feed whose elements are in the Atom namespace the record's
\* title is the text of the feed's title element, and each item's title,
\* guid, published and author are the texts of the entry's title, id,
\* published (else updated) and author/name elements, leaf elements included.
C34_AtomMapping ==
    (feed_result # <<>> /\ InAtomNamespace(feed_root)) =>
        LET r == feed_result[1]
            es == findall(feed_root, "entry", TRUE)
        IN /\ r.title = AtomText(feed_root, "title")
           /\ Len(r.items) = Len(es)
           /\ \A i \in 1..Len(es) :
                /\ r.items[i].title = AtomText(es[i].kids, "title")
                /\ r.items[i].guid = AtomText(es[i].kids, "id")
                /\ r.items[i].published = str_or(AtomText(es[i].kids, "published"),
                                                 AtomText(es[i].kids, "updated"))
                /\ r.items[i].author =
                     AtomText(find(es[i].kids, "author", TRUE).kids, "name")

-----------------------------------------------------------------------------
(* Properties of the plugin's clients (SpecPlugin) *)

\* C37: after an Initialize, whatever calls of Initialize and Shutdown came
\* before it, the scraper holds a sink client iff this Initialize was given
\* a sink endpoint, and the plugin a queue client iff it was given a queue
\* endpoint: no client of an earlier Initialize is still in use.
C37_ClientsOfLastInitialize ==
    plugin.last = "Initialize" =>
        /\ plugin.scraper_ats <=> "ats" \in plugin.supplied
        /\ plugin.pulse_client <=> "pulse" \in plugin.supplied

-----------------------------------------------------------------------------
(* Properties of repeated /crawl runs (SpecRecrawl) *)

HasTitleIn(atts, u) == \E a \in atts : a.subject = u /\ a.predicate = "has_title"
RunEnded == call.kind = "crawl_and_attest" /\ pc \in {"returned", "raised"}
CheckOps == {"attested", "not_attested", "check_failed"}
Checked(u) == \E i \in 1..Len(trace) : trace[i].url = u /\ trace[i].op \in CheckOps
FetchedInRun(u) == \E i \in 1..Len(trace) : trace[i] = Event("get", u)
YieldedInRun(u) == \E i \in 1..Len(result) : result[i].url = u

\* in run r the sink accepted u's has_title and then refused one of u's
\* link commands
PartlyAttested(r, u) ==
    /\ HasTitleIn(r.accepted, u)
    /\ \E a \in r.refused : a.subject = u /\ a.predicate = "links_to"

\* C38: when the sink refused a command of page u after accepting u's
\* has_title, a later /crawl run that comes to u fetches u again to project
\* it.
C38_PartialIsRetried ==
    \A r \in runs, u \in RecrawlStarts :
        (PartlyAttested(r, u) /\ RunEnded /\ Checked(u)) => FetchedInRun(u)

EarlierTitled == \E r \in runs : HasTitleIn(r.accepted, call.url)
NothingDone == ~(\E i \in 1..Len(trace) : trace[i].op = "get") /\ result = <<>> /\ sink = <<>>

FailedChecks == {i \in 1..Len(trace) : trace[i].op = "check_failed"}

\* C40 as stated: a URL whose check failed is fetched and yielded by the
\* crawl (read for a crawl with a page budget of at least one).
C40_FailedCheckMeansCrawled_AsStated ==
    (call.kind = "crawl_and_attest" /\ pc = "returned" /\ call.limit >= 1) =>
        \A i \in FailedChecks : YieldedInRun(trace[i].url)

\* C40 (amended): a failed query makes the check answer "not previously
\* attested" and no exception leaves it.  After the check inside the loop the
\* URL is marked visited, scraped and yielded in the same iteration; after
\* the check of start_url ahead of the loop the crawl enters the loop, and
\* it returns without an iteration only if max_pages allows none.
C40_FailedCheckMeansCrawled ==
    call.kind = "crawl_and_attest" =>
        \A i \in FailedChecks :
            IF i = 1
            THEN Len(trace) = 1 =>
                    /\ pc \in {"crawl", "returned"} /\ to_visit = <<call.url>>
                    /\ pc = "returned" => call.limit = 0
            ELSE /\ trace[i].url \in visited
                 /\ YieldedInRun(trace[i].url)
                 /\ i < Len(trace)
                 /\ trace[i + 1].url = trace[i].url
                 /\ trace[i + 1].op \in {"admit", "refuse", "raise"}

\* Inside the loop the query failed for a URL whose has_title the sink
\* holds, and the URL was fetched and yielded all the same.
C40_Witness ==
    /\ call.kind = "crawl_and_attest"
    /\ \E i \in FailedChecks :
        /\ i > 1
        /\ HasTitleIn(store, trace[i].url)
        /\ \E r \in runs : HasTitleIn(r.accepted, trace[i].url)
        /\ FetchedInRun(trace[i].url) /\ YieldedInRun(trace[i].url)

====
